---- MODULE Spec2Model ----
(***************************************************************************)
(* Model of the Shai-Hulud scanner:                                        *)
(*   lib/semver-match.js       (parseVersion, compareVersions, satisfies)  *)
(*   lib/csv-parser.js         (parseMaliciousPackagesCsv)                 *)
(*   lib/check-infections.js   (checkInfections)                           *)
(*   lib/check-dependencies.js (lock parsers, checkDependencies)           *)
(*   scan-shai-hulud.sh        (cache handling, scan loop, checkpoints)    *)
(*   its monorepo version      (git tree, package.json and lock fetches)   *)
(* A JavaScript string is a sequence of one-character strings.  A          *)
(* JavaScript object is the sequence of its <<key, value>> entries in      *)
(* insertion order, keys unique.  Each part has its own specification;     *)
(* the variables of the other parts stay at their idle values.             *)
(***************************************************************************)
EXTENDS Integers, Sequences, FiniteSets, TLC

\* checkDependencies: its arguments, its position and its locals
VARIABLES packageJsonContent, lockFiles, maliciousPackages,
          pc, allDeps, lockedVersions,
          vulnerabilities, affectedPackages,
          foundVulnerabilities, foundAffected,
          manifestVulns, outcome

\* one call of satisfies or matchesVersion: its arguments and what it returned
VARIABLES argVersion, argRange, semverResult

\* parseMaliciousPackagesCsv: the rows its argument was written from, its
\* argument, its position and its locals
VARIABLES csvSource, csvContent, csvPc, csvLines, csvI, csvPackages

\* checkInfections: its arguments, its position and its local
VARIABLES runners, workflows, repoDescription, infPc, findings

\* scan-shai-hulud.sh: the two files it keeps, the fetched list, how the last
\* run ended, the position of this run, its shell variables and the status
\* line it echoed last
VARIABLES cacheFile, outputFile, REPOS, previousRun, scanPc, repoIndex,
          RESUME, START_FROM_REPO, SCANNED, SKIP_UNTIL_FOUND, echoed

\* the monorepo version of the script (recursive search for package.json):
\* the package.json paths of the repository in turn, the position in them,
\* the three temporary files of the turn and what the turns displayed
VARIABLES PACKAGE_PATHS, pathIndex, TMP_VULNS, TMP_AFFECTED, TMP_WARNINGS, console

\* one call of a lock parser: the entries its argument was written from, its
\* argument and what it returned
VARIABLES lockSource, argContent, lockResult

depVars == <<packageJsonContent, lockFiles, maliciousPackages,
             pc, allDeps, lockedVersions,
             vulnerabilities, affectedPackages,
             foundVulnerabilities, foundAffected,
             manifestVulns, outcome>>

semverVars == <<argVersion, argRange, semverResult>>

csvVars == <<csvSource, csvContent, csvPc, csvLines, csvI, csvPackages>>

infVars == <<runners, workflows, repoDescription, infPc, findings>>

scanVars == <<cacheFile, outputFile, REPOS, previousRun, scanPc, repoIndex,
              RESUME, START_FROM_REPO, SCANNED, SKIP_UNTIL_FOUND, echoed>>

monoVars == <<PACKAGE_PATHS, pathIndex, TMP_VULNS, TMP_AFFECTED, TMP_WARNINGS, console>>

lockVars == <<lockSource, argContent, lockResult>>

vars == <<depVars, semverVars, csvVars, infVars, scanVars, monoVars, lockVars>>

\* the variables checkDependencies never touches
notDepVars == <<semverVars, csvVars, infVars, scanVars, monoVars, lockVars>>

\* the variables a call of the version matcher never touches
notSemverVars == <<depVars, csvVars, infVars, scanVars, monoVars, lockVars>>

\* the variables parseMaliciousPackagesCsv never touches
notCsvVars == <<depVars, semverVars, infVars, scanVars, monoVars, lockVars>>

\* the variables checkInfections never touches
notInfVars == <<depVars, semverVars, csvVars, scanVars, monoVars, lockVars>>

\* the variables the single-package version of the script never touches
notScanVars == <<depVars, semverVars, csvVars, infVars, monoVars, lockVars>>

\* the variables neither version of the script touches
notMonoVars == <<depVars, semverVars, csvVars, infVars, lockVars>>

\* the variables a call of a lock parser never touches
notLockVars == <<depVars, semverVars, csvVars, infVars, scanVars, monoVars>>

-----------------------------------------------------------------------------
(* Strings                                                                 *)

DigitChars == {"0", "1", "2", "3", "4", "5", "6", "7", "8", "9"}

WhiteChars == {" ", "\t", "\n", "\r"}

\* \w of a JavaScript regular expression, over the letters the inputs use
WordChars == DigitChars \cup {"a", "b", "c", "d", "e", "i", "l", "m", "n", "o",
                              "r", "s", "t", "u", "v", "x", "_"}

DigitVal(c) ==
  CASE c = "0" -> 0 [] c = "1" -> 1 [] c = "2" -> 2 [] c = "3" -> 3
    [] c = "4" -> 4 [] c = "5" -> 5 [] c = "6" -> 6 [] c = "7" -> 7
    [] c = "8" -> 8 [] c = "9" -> 9

\* s.slice(n): s without its first n characters
slice(s, n) == IF n >= Len(s) THEN <<>> ELSE SubSeq(s, n + 1, Len(s))

\* s.startsWith(p)
startsWith(s, p) == Len(s) >= Len(p) /\ SubSeq(s, 1, Len(p)) = p

\* number of characters of s, from position i on, that belong to set C
RECURSIVE RunLen(_, _, _)
RunLen(s, i, C) ==
  IF i > Len(s) \/ s[i] \notin C THEN 0 ELSE 1 + RunLen(s, i + 1, C)

\* number of characters of s that belong to C, counted back from position i
RECURSIVE RunLenBack(_, _, _)
RunLenBack(s, i, C) ==
  IF i < 1 \/ s[i] \notin C THEN 0 ELSE 1 + RunLenBack(s, i - 1, C)

\* s.trim()
trim(s) ==
  LET a == RunLen(s, 1, WhiteChars)
      b == RunLenBack(s, Len(s), WhiteChars)
  IN  IF a >= Len(s) THEN <<>> ELSE SubSeq(s, a + 1, Len(s) - b)

\* parseInt(digits, 10) of a non-empty run of decimal digits
RECURSIVE parseInt(_)
parseInt(d) ==
  IF d = <<>> THEN 0
  ELSE 10 * parseInt(SubSeq(d, 1, Len(d) - 1)) + DigitVal(d[Len(d)])

\* s.split(sep) for a one-character separator
RECURSIVE splitFrom(_, _, _, _)
splitFrom(s, i, sep, cur) ==
  IF i > Len(s) THEN <<cur>>
  ELSE IF s[i] = sep THEN <<cur>> \o splitFrom(s, i + 1, sep, <<>>)
  ELSE splitFrom(s, i + 1, sep, Append(cur, s[i]))

split(s, sep) == splitFrom(s, 1, sep, <<>>)

\* s.split(/\s+/).filter(p => p): the maximal runs of non-blank characters
RECURSIVE splitBlanks(_, _, _)
splitBlanks(s, i, cur) ==
  IF i > Len(s) THEN (IF cur = <<>> THEN <<>> ELSE <<cur>>)
  ELSE IF s[i] \in WhiteChars
       THEN (IF cur = <<>> THEN <<>> ELSE <<cur>>) \o splitBlanks(s, i + 1, <<>>)
       ELSE splitBlanks(s, i + 1, Append(cur, s[i]))

\* the package names of the inputs
NameA == <<"a">>
NameB == <<"b">>

Names == {NameA, NameB}

-----------------------------------------------------------------------------
(* lib/semver-match.js                                                     *)

NoVersion == [ok |-> FALSE, major |-> 0, minor |-> 0, patch |-> 0, prerelease |-> <<>>]

\* /^(\d+)\.(\d+)\.(\d+)(?:-(.+))?$/ ; prerelease <<>> stands for null
parseVersion(version) ==
  LET n1 == RunLen(version, 1, DigitChars)
      p2 == n1 + 2
      n2 == RunLen(version, p2, DigitChars)
      p3 == p2 + n2 + 1
      n3 == RunLen(version, p3, DigitChars)
      e  == p3 + n3
      shape == /\ n1 >= 1
               /\ Len(version) >= n1 + 1 /\ version[n1 + 1] = "."
               /\ n2 >= 1
               /\ Len(version) >= p2 + n2 /\ version[p2 + n2] = "."
               /\ n3 >= 1
      rest == slice(version, e - 1)
      tailOk == \/ rest = <<>>
                \/ /\ Len(rest) >= 2
                   /\ rest[1] = "-"
                   /\ \A k \in 2..Len(rest) : rest[k] \notin {"\n", "\r"}
  IN  IF shape /\ tailOk
      THEN [ok |-> TRUE,
            major |-> parseInt(SubSeq(version, 1, n1)),
            minor |-> parseInt(SubSeq(version, p2, p2 + n2 - 1)),
            patch |-> parseInt(SubSeq(version, p3, p3 + n3 - 1)),
            prerelease |-> slice(rest, 1)]
      ELSE NoVersion

\* a comparison that stops at the patch number
compareVersionsNumbersOnly(a, b) ==
  IF a.major # b.major THEN (IF a.major < b.major THEN -1 ELSE 1)
  ELSE IF a.minor # b.minor THEN (IF a.minor < b.minor THEN -1 ELSE 1)
  ELSE IF a.patch # b.patch THEN (IF a.patch < b.patch THEN -1 ELSE 1)
  ELSE 0

compareVersions(a, b) ==
  IF a.major # b.major THEN (IF a.major < b.major THEN -1 ELSE 1)
  ELSE IF a.minor # b.minor THEN (IF a.minor < b.minor THEN -1 ELSE 1)
  ELSE IF a.patch # b.patch THEN (IF a.patch < b.patch THEN -1 ELSE 1)
  ELSE IF a.prerelease # <<>> /\ b.prerelease = <<>> THEN -1
  ELSE IF a.prerelease = <<>> /\ b.prerelease # <<>> THEN 1
  ELSE 0

\* /^\d+\.\d+\.\d+/.test(s)
looksLikeVersion(s) ==
  LET n1 == RunLen(s, 1, DigitChars)
      n2 == RunLen(s, n1 + 2, DigitChars)
      n3 == RunLen(s, n1 + n2 + 3, DigitChars)
  IN  /\ n1 >= 1 /\ Len(s) >= n1 + 1 /\ s[n1 + 1] = "."
      /\ n2 >= 1 /\ Len(s) >= n1 + n2 + 2 /\ s[n1 + n2 + 2] = "."
      /\ n3 >= 1

\* if (!rangeVersion) return false; return compareVersions(version, rangeVersion) <op> 0
comparesAs(version, rangeVersion, results) ==
  rangeVersion.ok /\ compareVersions(version, rangeVersion) \in results

\* satisfiesComparator after comparator = comparator.trim()
comparatorHolds(version, comparator) ==
  IF looksLikeVersion(comparator)
    THEN comparesAs(version, parseVersion(comparator), {0})
  ELSE IF startsWith(comparator, <<">", "=">>)
    THEN comparesAs(version, parseVersion(slice(comparator, 2)), {0, 1})
  ELSE IF startsWith(comparator, <<">">>)
    THEN comparesAs(version, parseVersion(slice(comparator, 1)), {1})
  ELSE IF startsWith(comparator, <<"<", "=">>)
    THEN comparesAs(version, parseVersion(slice(comparator, 2)), {-1, 0})
  ELSE IF startsWith(comparator, <<"<">>)
    THEN comparesAs(version, parseVersion(slice(comparator, 1)), {-1})
  ELSE FALSE

satisfiesComparator(version, comparator) == comparatorHolds(version, trim(comparator))

\* /^(\d+)\.x$/: the N.x.x form forgotten
xMatchOneX(range) ==
  [ok |-> RunLen(range, 1, DigitChars) >= 1
            /\ slice(range, RunLen(range, 1, DigitChars)) = <<".", "x">>,
   major |-> parseInt(SubSeq(range, 1, RunLen(range, 1, DigitChars)))]

\* /^(\d+)\.x(?:\.x)?$/
xMatch(range) ==
  LET n == RunLen(range, 1, DigitChars)
      rest == slice(range, n)
  IN  [ok |-> n >= 1 /\ rest \in {<<".", "x">>, <<".", "x", ".", "x">>},
       major |-> parseInt(SubSeq(range, 1, n))]

\* /^(\d+)\.(\d+)\.x$/
xxMatch(range) ==
  LET n1 == RunLen(range, 1, DigitChars)
      n2 == RunLen(range, n1 + 2, DigitChars)
  IN  [ok |-> /\ n1 >= 1 /\ Len(range) >= n1 + 1 /\ range[n1 + 1] = "."
              /\ n2 >= 1 /\ slice(range, n1 + 1 + n2) = <<".", "x">>,
       major |-> parseInt(SubSeq(range, 1, n1)),
       minor |-> parseInt(SubSeq(range, n1 + 2, n1 + 1 + n2))]

\* a caret branch that stops at the major number
caretHoldsAnyMinor(parsedVersion, rangeVersion) ==
  /\ rangeVersion.ok
  /\ parsedVersion.prerelease = <<>>
  /\ IF rangeVersion.major = 0
       THEN IF rangeVersion.minor = 0
              THEN compareVersions(parsedVersion, rangeVersion) = 0
              ELSE /\ parsedVersion.major = 0
                   /\ parsedVersion.minor = rangeVersion.minor
                   /\ parsedVersion.patch >= rangeVersion.patch
       ELSE parsedVersion.major = rangeVersion.major

\* a caret branch without the zero-major rules
caretHoldsNoZeroRule(parsedVersion, rangeVersion) ==
  /\ rangeVersion.ok
  /\ parsedVersion.prerelease = <<>>
  /\ parsedVersion.major = rangeVersion.major
  /\ compareVersions(parsedVersion, rangeVersion) >= 0

\* the caret branch of satisfies, rangeVersion = parseVersion(range.slice(1))
caretHolds(parsedVersion, rangeVersion) ==
  IF ~rangeVersion.ok THEN FALSE
  ELSE IF parsedVersion.prerelease # <<>> THEN FALSE
  ELSE IF rangeVersion.major = 0
    THEN IF rangeVersion.minor = 0
           THEN compareVersions(parsedVersion, rangeVersion) = 0
           ELSE /\ parsedVersion.major = 0
                /\ parsedVersion.minor = rangeVersion.minor
                /\ parsedVersion.patch >= rangeVersion.patch
  ELSE /\ parsedVersion.major = rangeVersion.major
       /\ compareVersions(parsedVersion, rangeVersion) >= 0

\* a tilde branch that lets the minor number grow, as a caret does
tildeHoldsAnyMinor(parsedVersion, rangeVersion) ==
  /\ rangeVersion.ok
  /\ parsedVersion.prerelease = <<>>
  /\ parsedVersion.major = rangeVersion.major
  /\ compareVersions(parsedVersion, rangeVersion) >= 0

\* the tilde branch of satisfies, rangeVersion = parseVersion(range.slice(1))
tildeHolds(parsedVersion, rangeVersion) ==
  IF ~rangeVersion.ok THEN FALSE
  ELSE IF parsedVersion.prerelease # <<>> THEN FALSE
  ELSE /\ parsedVersion.major = rangeVersion.major
       /\ parsedVersion.minor = rangeVersion.minor
       /\ parsedVersion.patch >= rangeVersion.patch

\* parts.some(...) in the place of parts.every(...)
someComparator(parsedVersion, parts) ==
  \E k \in 1..Len(parts) : satisfiesComparator(parsedVersion, parts[k])

\* parts.every((part) => satisfiesComparator(parsedVersion, part))
everyComparator(parsedVersion, parts) ==
  \A k \in 1..Len(parts) : satisfiesComparator(parsedVersion, parts[k])

\* x-range branches that forget the prerelease
xRangeHoldsAnyPrerelease(parsedVersion, x, xx) ==
  IF x.ok THEN parsedVersion.major = x.major
  ELSE parsedVersion.major = xx.major /\ parsedVersion.minor = xx.minor

\* the x-range branches of satisfies
xRangeHolds(parsedVersion, x, xx) ==
  IF x.ok THEN parsedVersion.major = x.major /\ parsedVersion.prerelease = <<>>
  ELSE /\ parsedVersion.major = xx.major
       /\ parsedVersion.minor = xx.minor
       /\ parsedVersion.prerelease = <<>>

\* satisfies after parseVersion(version) succeeded and range = range.trim()
rangeHolds(parsedVersion, range) ==
  IF range = <<"*">> THEN parsedVersion.prerelease = <<>>
  ELSE IF xMatch(range).ok \/ xxMatch(range).ok
    THEN xRangeHolds(parsedVersion, xMatch(range), xxMatch(range))
  ELSE IF startsWith(range, <<"^">>)
    THEN caretHolds(parsedVersion, parseVersion(slice(range, 1)))
  ELSE IF startsWith(range, <<"~">>)
    THEN tildeHolds(parsedVersion, parseVersion(slice(range, 1)))
  ELSE IF \E k \in 1..Len(range) : range[k] = " "
    THEN everyComparator(parsedVersion, splitBlanks(range, 1, <<>>))
  ELSE satisfiesComparator(parsedVersion, range)

\* satisfies without the check that the version parsed
parsedHoldsUnchecked(parsedVersion, range) == rangeHolds(parsedVersion, range)

\* if (!parsedVersion) return false
parsedHolds(parsedVersion, range) == parsedVersion.ok /\ rangeHolds(parsedVersion, range)

satisfies(version, range) == parsedHolds(parseVersion(version), trim(range))

\* a matcher that only compares the two strings
matchesVersionExact(declaredVersion, maliciousVersion) == declaredVersion = maliciousVersion

matchesVersion(declaredVersion, maliciousVersion) ==
  satisfies(maliciousVersion, declaredVersion)

-----------------------------------------------------------------------------
(* lib/csv-parser.js                                                       *)

\* s.replace(/\r\n/g, '\n')
RECURSIVE replaceCRLF(_, _)
replaceCRLF(s, i) ==
  IF i > Len(s) THEN <<>>
  ELSE IF s[i] = "\r" /\ i < Len(s) /\ s[i + 1] = "\n"
    THEN <<"\n">> \o replaceCRLF(s, i + 2)
  ELSE <<s[i]>> \o replaceCRLF(s, i + 1)

\* s.indexOf(c), counted from 0; -1 when c is not in s
indexOf(s, c) ==
  IF \E k \in 1..Len(s) : s[k] = c
  THEN (CHOOSE k \in 1..Len(s) : s[k] = c /\ \A j \in 1..(k - 1) : s[j] # c) - 1
  ELSE -1

\* s.split('||')
RECURSIVE splitOrFrom(_, _, _)
splitOrFrom(s, i, cur) ==
  IF i > Len(s) THEN <<cur>>
  ELSE IF s[i] = "|" /\ i < Len(s) /\ s[i + 1] = "|"
    THEN <<cur>> \o splitOrFrom(s, i + 2, <<>>)
  ELSE splitOrFrom(s, i + 1, Append(cur, s[i]))

\* a version taken as it stands, the '=' marker kept
keepEquals(part) == trim(part)

\* part.trim().replace(/^=\s*/, '')
stripEquals(part) ==
  IF trim(part) # <<>> /\ trim(part)[1] = "="
  THEN slice(trim(part), 1 + RunLen(trim(part), 2, WhiteChars))
  ELSE trim(part)

\* for (const part of versionParts) { ...; if (version) packages.push(...) }
RECURSIVE pushVersions(_, _, _, _)
pushVersions(packageName, versionParts, k, pkgs) ==
  IF k > Len(versionParts) THEN pkgs
  ELSE IF stripEquals(versionParts[k]) # <<>>
    THEN pushVersions(packageName, versionParts, k + 1,
                      Append(pkgs, [package |-> packageName,
                                    version |-> stripEquals(versionParts[k])]))
  ELSE pushVersions(packageName, versionParts, k + 1, pkgs)

\* line.slice(0, commaIndex).trim()
packageNameOf(line) == trim(SubSeq(line, 1, indexOf(line, ",")))

\* line.slice(commaIndex + 1).trim()
versionSpecOf(line) == trim(slice(line, indexOf(line, ",") + 1))

\* the three `continue` tests of the loop body, line = lines[i].trim()
skipsLine(line) ==
  \/ line = <<>>
  \/ indexOf(line, ",") = -1
  \/ packageNameOf(line) = <<>>
  \/ versionSpecOf(line) = <<>>

-----------------------------------------------------------------------------
(* lib/check-infections.js                                                 *)
(* A runner or workflow is [name |-> a string]; the description is         *)
(* [isNull, text], text holding its characters.                            *)

\* 'Sha1-Hulud: The Second Coming'
SecondComing ==
  <<"S", "h", "a", "1", "-", "H", "u", "l", "u", "d", ":", " ", "T", "h",
    "e", " ", "S", "e", "c", "o", "n", "d", " ", "C", "o", "m", "i", "n",
    "g">>

\* a test that wants the whole string to be the marker
equalsWhole(s, sub) == s = sub

\* s.includes(sub)
includes(s, sub) ==
  \E k \in 1..(Len(s) - Len(sub) + 1) : SubSeq(s, k, k + Len(sub) - 1) = sub

\* for (const runner of runners) if (runner.name === 'SHA1HULUD') findings.push(...)
RECURSIVE runnerFindings(_, _, _)
runnerFindings(list, k, found) ==
  IF k > Len(list) THEN found
  ELSE IF list[k].name = "SHA1HULUD"
    THEN runnerFindings(list, k + 1,
           Append(found, [type |-> "runner", name |-> list[k].name, confidence |-> 100]))
  ELSE runnerFindings(list, k + 1, found)

\* for (const workflow of workflows) if (workflow.name === 'formatter_123456789.yml') ...
RECURSIVE workflowFindings(_, _, _)
workflowFindings(list, k, found) ==
  IF k > Len(list) THEN found
  ELSE IF list[k].name = "formatter_123456789.yml"
    THEN workflowFindings(list, k + 1,
           Append(found, [type |-> "workflow", file |-> list[k].name, confidence |-> 100]))
  ELSE workflowFindings(list, k + 1, found)

\* if (repoDescription && repoDescription.includes('Sha1-Hulud: The Second Coming'))
descriptionFindings(description, found) ==
  IF ~description.isNull /\ description.text # <<>>
       /\ includes(description.text, SecondComing)
  THEN Append(found, [type |-> "description", evidence |-> description.text,
                      confidence |-> 100])
  ELSE found

-----------------------------------------------------------------------------
(* JavaScript objects: <<key, value>> entries in insertion order           *)

ObjKeys(o) == {o[i][1] : i \in 1..Len(o)}

ObjHas(o, k) == \E i \in 1..Len(o) : o[i][1] = k

ObjGet(o, k) == o[CHOOSE i \in 1..Len(o) : o[i][1] = k][2]

\* o[k] = v: an existing key keeps its position, a new key goes last
ObjSet(o, k, v) ==
  IF ObjHas(o, k)
  THEN [i \in 1..Len(o) |-> IF o[i][1] = k THEN <<k, v>> ELSE o[i]]
  ELSE Append(o, <<k, v>>)

\* { ...a, ...b }
RECURSIVE ObjSpread(_, _)
ObjSpread(a, b) ==
  IF b = <<>> THEN a
  ELSE ObjSpread(ObjSet(a, b[1][1], b[1][2]), Tail(b))

-----------------------------------------------------------------------------
(* lib/check-dependencies.js: the lock parsers                             *)
(* The content of a lock file is [str, text, json]: str says whether the   *)
(* content is a string at all, text holds its characters and json is what  *)
(* JSON.parse makes of it: [ok, isNull, packages, dependencies], each      *)
(* entry of packages and dependencies being <<key, [isNull, version]>>.    *)

NodeModules == <<"n", "o", "d", "e", "_", "m", "o", "d", "u", "l", "e", "s", "/">>

\* path.replace(/^node_modules\//, '')
stripNodeModules(path) ==
  IF startsWith(path, NodeModules) THEN slice(path, Len(NodeModules)) ELSE path

\* one for-loop of parsePackageLockJson; threw: reading .version of null
RECURSIVE lockEntriesLoop(_, _, _, _)
lockEntriesLoop(entries, i, versions, isPackages) ==
  IF i > Len(entries) THEN [versions |-> versions, threw |-> FALSE]
  ELSE LET path == entries[i][1]
           pkg  == entries[i][2]
           name == IF isPackages THEN stripNodeModules(path) ELSE path
       IN  IF isPackages /\ path = <<>>
             THEN lockEntriesLoop(entries, i + 1, versions, isPackages)
           ELSE IF pkg.isNull
             THEN [versions |-> versions, threw |-> TRUE]
           ELSE IF pkg.version # <<>>
             THEN lockEntriesLoop(entries, i + 1, ObjSet(versions, name, pkg.version),
                                  isPackages)
           ELSE lockEntriesLoop(entries, i + 1, versions, isPackages)

parsePackageLockJson(content) ==
  LET lock == content.json
      afterPackages == lockEntriesLoop(lock.packages, 1, <<>>, TRUE)
      afterDependencies ==
        lockEntriesLoop(lock.dependencies, 1, afterPackages.versions, FALSE)
  IN  IF ~lock.ok \/ lock.isNull THEN <<>>
      ELSE IF afterPackages.threw THEN afterPackages.versions
      ELSE afterDependencies.versions

\* number of characters of s, from position i on, that do not belong to C
RECURSIVE RunLenNot(_, _, _)
RunLenNot(s, i, C) ==
  IF i > Len(s) \/ s[i] \in C THEN 0 ELSE 1 + RunLenNot(s, i + 1, C)

VersionWord == <<"v", "e", "r", "s", "i", "o", "n">>

\* line.match(/^["']?([^"'@,]+)/): the captured group, <<>> when no match
yarnPackageMatch(line) ==
  LET excl == {"\"", "'", "@", ","}
      q == IF line # <<>> /\ line[1] \in {"\"", "'"} THEN 1 ELSE 0
      n == RunLenNot(line, q + 1, excl)
  IN  IF n >= 1 THEN SubSeq(line, q + 1, q + n) ELSE <<>>

\* whether /version\s+"([^"]+)"/ matches at position p of line, and the group
yarnVersionAt(line, p) ==
  LET w == RunLen(line, p + Len(VersionWord), WhiteChars)
      o == p + Len(VersionWord) + w
      n == RunLenNot(line, o + 1, {"\""})
  IN  [ok |-> /\ startsWith(slice(line, p - 1), VersionWord)
              /\ w >= 1
              /\ o <= Len(line) /\ line[o] = "\""
              /\ n >= 1
              /\ o + n + 1 <= Len(line),
       version |-> IF n >= 1 THEN SubSeq(line, o + 1, o + n) ELSE <<>>]

\* line.match(/version\s+"([^"]+)"/): leftmost match, <<>> when none
yarnVersionMatch(line) ==
  LET hits == {p \in 1..Len(line) : yarnVersionAt(line, p).ok}
  IN  IF hits = {} THEN <<>>
      ELSE yarnVersionAt(line, CHOOSE p \in hits : \A r \in hits : p <= r).version

\* the for-loop of parseYarnLock; currentPackage <<>> stands for null
RECURSIVE yarnLoop(_, _, _, _)
yarnLoop(lines, i, currentPackage, versions) ==
  IF i > Len(lines) THEN versions
  ELSE LET line == lines[i]
           isDecl == line # <<>> /\ line[1] \in ({"\"", "@"} \cup WordChars)
           cp == IF isDecl /\ yarnPackageMatch(line) # <<>>
                 THEN yarnPackageMatch(line) ELSE currentPackage
           ws == RunLen(line, 1, WhiteChars)
           isVersionLine == ws >= 1 /\ startsWith(slice(line, ws), VersionWord)
           vm == yarnVersionMatch(line)
       IN  IF isVersionLine /\ cp # <<>> /\ vm # <<>>
           THEN yarnLoop(lines, i + 1, <<>>, ObjSet(versions, cp, vm))
           ELSE yarnLoop(lines, i + 1, cp, versions)

parseYarnLock(content) ==
  IF ~content.str THEN <<>>
  ELSE yarnLoop(split(content.text, "\n"), 1, <<>>, <<>>)

\* line.match(/^\s+\/([^:]+)@([0-9][^:]*?):/)
pnpmMatch(line) ==
  LET ws == RunLen(line, 1, WhiteChars)
      c  == RunLenNot(line, ws + 2, {":"})
      t  == SubSeq(line, ws + 2, ws + 1 + c)
      ats == {q \in 2..(Len(t) - 1) : t[q] = "@" /\ t[q + 1] \in DigitChars}
      at  == CHOOSE q \in ats : \A r \in ats : r <= q
      ok  == /\ ws >= 1
             /\ ws + 1 <= Len(line) /\ line[ws + 1] = "/"
             /\ ws + 2 + c <= Len(line)
             /\ ats # {}
  IN  [ok |-> ok,
       name |-> IF ok THEN SubSeq(t, 1, at - 1) ELSE <<>>,
       version |-> IF ok THEN SubSeq(t, at + 1, Len(t)) ELSE <<>>]

RECURSIVE pnpmLoop(_, _, _)
pnpmLoop(lines, i, versions) ==
  IF i > Len(lines) THEN versions
  ELSE IF pnpmMatch(lines[i]).ok
       THEN pnpmLoop(lines, i + 1,
                     ObjSet(versions, pnpmMatch(lines[i]).name, pnpmMatch(lines[i]).version))
       ELSE pnpmLoop(lines, i + 1, versions)

parsePnpmLock(content) ==
  IF ~content.str THEN <<>>
  ELSE pnpmLoop(split(content.text, "\n"), 1, <<>>)

-----------------------------------------------------------------------------
(* lib/check-dependencies.js: checkDependencies                            *)

\* a parse that lets any manifest text through as an empty document
JSONparseLenient(content) ==
  [threw |-> FALSE, message |-> "",
   dependencies |-> content.dependencies, devDependencies |-> content.devDependencies]

\* JSON.parse(packageJsonContent) followed by the reads of pkg.dependencies and
\* pkg.devDependencies: a SyntaxError on malformed text, a TypeError on null
JSONparse(content) ==
  [threw |-> ~content.ok \/ content.isNull,
   message |-> IF ~content.ok THEN "Unexpected token" ELSE "Cannot read properties of null",
   dependencies |-> content.dependencies,
   devDependencies |-> content.devDependencies]

\* maliciousPackages.filter(m => m.package === depName)
RECURSIVE filterByPackage(_, _)
filterByPackage(bad, depName) ==
  IF bad = <<>> THEN <<>>
  ELSE IF bad[1].package = depName
       THEN <<bad[1]>> \o filterByPackage(Tail(bad), depName)
       ELSE filterByPackage(Tail(bad), depName)

\* a lock filter that forgets the version
filterByPackageAnyVersion(bad, depName, lockedVersion) == filterByPackage(bad, depName)

\* maliciousPackages.filter(m => m.package === depName && m.version === lockedVersion)
RECURSIVE filterByPackageAndVersion(_, _, _)
filterByPackageAndVersion(bad, depName, lockedVersion) ==
  IF bad = <<>> THEN <<>>
  ELSE IF bad[1].package = depName /\ bad[1].version = lockedVersion
       THEN <<bad[1]>> \o filterByPackageAndVersion(Tail(bad), depName, lockedVersion)
       ELSE filterByPackageAndVersion(Tail(bad), depName, lockedVersion)

\* a version list that forgets the package filter
allMaliciousVersions(bad, depName) == [i \in 1..Len(bad) |-> bad[i].version]

\* maliciousPackages.filter(m => m.package === depName).map(m => m.version)
maliciousVersionsOf(bad, depName) ==
  [i \in 1..Len(filterByPackage(bad, depName)) |-> filterByPackage(bad, depName)[i].version]

\* a name set that takes every package for an affected one
anyPackageName(bad) == Names

\* new Set(maliciousPackages.map(m => m.package))
affectedPackageNames(bad) == {bad[i].package : i \in 1..Len(bad)}

\* `${depName}@${mal.version}`
vulnKey(depName, version) == depName \o <<"@">> \o version

\* a set lookup that never finds its key
neverFound(found, key) == FALSE

\* foundVulnerabilities.has(key)
alreadyFound(found, key) == key \in found

\* a lookup that takes no package for a declared one
isDirectNever(deps, depName) == FALSE

\* allDeps.hasOwnProperty(depName)
isDirect(deps, depName) == ObjHas(deps, depName)

\* the state of the two passes: the lists and the sets that guard them
PassState(v, a, fv, fa) == [v |-> v, a |-> a, fv |-> fv, fa |-> fa]

\* for (const mal of malicious) of the manifest pass
RECURSIVE manifestMalLoop(_, _, _, _, _)
manifestMalLoop(depName, depVersion, malicious, st, hasVulnerability) ==
  IF malicious = <<>> THEN [st |-> st, hasVulnerability |-> hasVulnerability]
  ELSE LET mal == malicious[1]
           key == vulnKey(depName, mal.version)
       IN  IF matchesVersion(depVersion, mal.version) /\ ~alreadyFound(st.fv, key)
           THEN manifestMalLoop(depName, depVersion, Tail(malicious),
                  PassState(Append(st.v, [package |-> depName,
                                          declared_version |-> depVersion,
                                          malicious_version |-> mal.version,
                                          match_type |-> "direct",
                                          severity |-> "high"]),
                            st.a, st.fv \cup {key}, st.fa),
                  TRUE)
           ELSE manifestMalLoop(depName, depVersion, Tail(malicious), st, hasVulnerability)

\* "Track affected packages (present but not vulnerable version)", r being the
\* outcome of the inner loop
trackAffected(depName, depVersion, bad, r) ==
  IF /\ ~r.hasVulnerability
     /\ depName \in affectedPackageNames(bad)
     /\ depName \notin r.st.fa
  THEN PassState(r.st.v,
                 Append(r.st.a, [package |-> depName,
                                 declared_version |-> depVersion,
                                 malicious_versions |-> maliciousVersionsOf(bad, depName),
                                 match_type |-> "none"]),
                 r.st.fv, r.st.fa \cup {depName})
  ELSE r.st

\* for (const [depName, depVersion] of Object.entries(allDeps))
RECURSIVE manifestLoop(_, _, _, _)
manifestLoop(deps, i, bad, st) ==
  IF i > Len(deps) THEN st
  ELSE manifestLoop(deps, i + 1, bad,
         trackAffected(deps[i][1], deps[i][2], bad,
           manifestMalLoop(deps[i][1], deps[i][2], filterByPackage(bad, deps[i][1]), st, FALSE)))

\* the if/else-if chain on lockFile.type
parseLockFile(lockFile) ==
  IF lockFile.type = "package-lock.json" THEN parsePackageLockJson(lockFile.content)
  ELSE IF lockFile.type = "yarn.lock" THEN parseYarnLock(lockFile.content)
  ELSE IF lockFile.type = "pnpm-lock.yaml" THEN parsePnpmLock(lockFile.content)
  ELSE <<>>

\* a merge in which the earlier lock files overwrite the later ones
RECURSIVE mergeLockFilesFirstWins(_, _)
mergeLockFilesFirstWins(files, locked) ==
  IF files = <<>> THEN locked
  ELSE mergeLockFilesFirstWins(Tail(files), ObjSpread(parseLockFile(files[1]), locked))

\* for (const lockFile of lockFiles) lockedVersions = { ...lockedVersions, ...parse }
RECURSIVE mergeLockFiles(_, _)
mergeLockFiles(files, locked) ==
  IF files = <<>> THEN locked
  ELSE mergeLockFiles(Tail(files), ObjSpread(locked, parseLockFile(files[1])))

\* for (const mal of malicious) of the lock pass
RECURSIVE lockMalLoop(_, _, _, _, _)
lockMalLoop(depName, lockedVersion, malicious, st, direct) ==
  IF malicious = <<>> THEN st
  ELSE LET mal == malicious[1]
           key == vulnKey(depName, mal.version)
       IN  IF ~alreadyFound(st.fv, key)
           THEN lockMalLoop(depName, lockedVersion, Tail(malicious),
                  PassState(Append(st.v, [package |-> depName,
                                          declared_version |-> lockedVersion,
                                          malicious_version |-> mal.version,
                                          match_type |-> IF direct THEN "direct" ELSE "transitive",
                                          severity |-> IF direct THEN "high" ELSE "medium"]),
                            st.a, st.fv \cup {key}, st.fa),
                  direct)
           ELSE lockMalLoop(depName, lockedVersion, Tail(malicious), st, direct)

\* for (const [depName, lockedVersion] of Object.entries(lockedVersions))
RECURSIVE lockLoop(_, _, _, _, _)
lockLoop(locked, i, deps, bad, st) ==
  IF i > Len(locked) THEN st
  ELSE LET depName == locked[i][1]
           lockedVersion == locked[i][2]
           malicious == filterByPackageAndVersion(bad, depName, lockedVersion)
           direct == isDirect(deps, depName)
       IN  IF Len(malicious) > 0
             THEN lockLoop(locked, i + 1, deps, bad,
                           lockMalLoop(depName, lockedVersion, malicious, st, direct))
           ELSE IF depName \in affectedPackageNames(bad) /\ depName \notin st.fa
             THEN lockLoop(locked, i + 1, deps, bad,
                    PassState(st.v,
                              Append(st.a, [package |-> depName,
                                            declared_version |-> lockedVersion,
                                            malicious_versions |-> maliciousVersionsOf(bad, depName),
                                            match_type |-> IF direct THEN "direct" ELSE "transitive"]),
                              st.fv, st.fa \cup {depName}))
           ELSE lockLoop(locked, i + 1, deps, bad, st)

-----------------------------------------------------------------------------
(* Inputs                                                                  *)

\* longest known-bad list
MaxBad == 2

\* most lock files handed to one call
MaxLockFiles == 2

DigitChar(n) ==
  CASE n = 0 -> "0" [] n = 1 -> "1" [] n = 2 -> "2" [] n = 3 -> "3" [] n = 4 -> "4"
    [] n = 5 -> "5" [] n = 6 -> "6" [] n = 7 -> "7" [] n = 8 -> "8" [] n = 9 -> "9"

\* the decimal numeral of n
RECURSIVE Numeral(_)
Numeral(n) == IF n < 10 THEN <<DigitChar(n)>> ELSE Numeral(n \div 10) \o <<DigitChar(n % 10)>>

Ver(major, minor, patch) ==
  Numeral(major) \o <<".">> \o Numeral(minor) \o <<".">> \o Numeral(patch)

Caret(v) == <<"^">> \o v

Bad(name, version) == [package |-> name, version |-> version]

BadEntries == {Bad(NameA, Ver(5, 11, 3)), Bad(NameA, Ver(5, 13, 3)), Bad(NameB, Ver(5, 11, 3))}

RECURSIVE SeqsUpTo(_, _)
SeqsUpTo(S, n) ==
  IF n = 0 THEN {<<>>}
  ELSE SeqsUpTo(S, n - 1) \cup {Append(q, x) : q \in {r \in SeqsUpTo(S, n - 1) : Len(r) = n - 1}, x \in S}

BadLists == SeqsUpTo(BadEntries, MaxBad)

ManifestObject(dependencies, devDependencies) ==
  [ok |-> TRUE, isNull |-> FALSE,
   dependencies |-> dependencies, devDependencies |-> devDependencies]

MalformedManifest == [ok |-> FALSE, isNull |-> FALSE, dependencies |-> <<>>, devDependencies |-> <<>>]

NullManifest == [ok |-> TRUE, isNull |-> TRUE, dependencies |-> <<>>, devDependencies |-> <<>>]

DependencyGroups ==
  {<<>>,
   << <<NameA, Caret(Ver(5, 0, 0))>> >>,
   << <<NameA, Caret(Ver(6, 0, 0))>> >>,
   << <<NameA, Caret(Ver(5, 0, 0))>>, <<NameB, Caret(Ver(6, 0, 0))>> >>}

DevDependencyGroups ==
  {<<>>,
   << <<NameA, Caret(Ver(6, 0, 0))>> >>,
   << <<NameB, Ver(5, 11, 3)>> >>}

Manifests ==
  {MalformedManifest, NullManifest}
    \cup {ManifestObject(d, v) : d \in DependencyGroups, v \in DevDependencyGroups}

NoJson == [ok |-> FALSE, isNull |-> FALSE, packages |-> <<>>, dependencies |-> <<>>]

JsonPkg(version) == [isNull |-> FALSE, version |-> version]

JsonNull == [isNull |-> TRUE, version |-> <<>>]

\* a package-lock.json document: v2 "packages" and v1 "dependencies"
PackageLockFile(packages, dependencies) ==
  [type |-> "package-lock.json",
   content |-> [str |-> TRUE, text |-> <<>>,
                json |-> [ok |-> TRUE, isNull |-> FALSE,
                          packages |-> packages, dependencies |-> dependencies]]]

Text(type, text) == [type |-> type, content |-> [str |-> TRUE, text |-> text, json |-> NoJson]]

\* name@^1.0.0:  /  version "V"
YarnEntry(name, version) ==
  name \o <<"@", "^", "1", ".", "0", ".", "0", ":", "\n">>
       \o <<" ", " ">> \o VersionWord \o <<" ", "\"">> \o version \o <<"\"", "\n">>

\* /name@V:
PnpmEntry(name, version) ==
  <<" ", " ", "/">> \o name \o <<"@">> \o version \o <<":", "\n">>

LockFileSamples ==
  {PackageLockFile(<< <<<<>>, JsonPkg(Ver(1, 0, 0))>>,
                      <<NodeModules \o NameA, JsonPkg(Ver(5, 11, 3))>> >>, <<>>),
   PackageLockFile(<< <<NodeModules \o NameB, JsonPkg(Ver(5, 11, 3))>>,
                      <<NodeModules \o NameA, JsonNull>> >>,
                   << <<NameA, JsonPkg(Ver(5, 13, 3))>> >>),
   Text("yarn.lock", YarnEntry(NameA, Ver(5, 12, 0)) \o YarnEntry(NameB, Ver(5, 11, 3))),
   Text("pnpm-lock.yaml", PnpmEntry(NameB, Ver(5, 12, 0)) \o PnpmEntry(NameA, Ver(5, 11, 3))),
   [type |-> "yarn.lock", content |-> [str |-> FALSE, text |-> <<>>, json |-> NoJson]]}

LockFileLists == SeqsUpTo(LockFileSamples, MaxLockFiles)

-----------------------------------------------------------------------------
(* checkDependencies(packageJsonContent, lockFiles, maliciousPackages)     *)

\* no call of the version matcher is under way
NotCalled == [call |-> "none", threw |-> FALSE, value |-> FALSE]

SemverIdle == argVersion = <<>> /\ argRange = <<>> /\ semverResult = NotCalled

CsvIdle ==
  /\ csvSource = <<>>
  /\ csvContent = <<>>
  /\ csvPc = "idle"
  /\ csvLines = <<>>
  /\ csvI = 0
  /\ csvPackages = <<>>

NoDescription == [isNull |-> TRUE, text |-> <<>>]

InfIdle ==
  /\ runners = <<>>
  /\ workflows = <<>>
  /\ repoDescription = NoDescription
  /\ infPc = "idle"
  /\ findings = <<>>

\* a file that does not exist
NoFile == [exists |-> FALSE]

ScanIdle ==
  /\ cacheFile = NoFile
  /\ outputFile = NoFile
  /\ REPOS = <<>>
  /\ previousRun = "none"
  /\ scanPc = "idle"
  /\ repoIndex = 0
  /\ RESUME = FALSE
  /\ START_FROM_REPO = <<>>
  /\ SCANNED = 0
  /\ SKIP_UNTIL_FOUND = FALSE
  /\ echoed = "none"

MonoIdle ==
  /\ PACKAGE_PATHS = <<>>
  /\ pathIndex = 0
  /\ TMP_VULNS = <<>>
  /\ TMP_AFFECTED = <<>>
  /\ TMP_WARNINGS = <<>>
  /\ console = <<>>

LockIdle == lockSource = <<>> /\ argContent = <<>> /\ lockResult = NotCalled

\* a message is the sequence of the pieces its template joins
Pending == [status |-> "pending", message |-> <<>>, vulnerabilities |-> <<>>, affectedPackages |-> <<>>]

Init ==
  /\ packageJsonContent \in Manifests
  /\ lockFiles \in {[isNull |-> TRUE, files |-> <<>>]}
                     \cup {[isNull |-> FALSE, files |-> f] : f \in LockFileLists}
  /\ maliciousPackages \in BadLists
  /\ pc = "start"
  /\ allDeps = <<>>
  /\ lockedVersions = <<>>
  /\ vulnerabilities = <<>>
  /\ affectedPackages = <<>>
  /\ foundVulnerabilities = {}
  /\ foundAffected = {}
  /\ manifestVulns = <<>>
  /\ outcome = Pending
  /\ SemverIdle
  /\ CsvIdle
  /\ InfIdle
  /\ ScanIdle
  /\ MonoIdle
  /\ LockIdle

\* const pkg = JSON.parse(...); const allDeps = {...pkg.dependencies, ...pkg.devDependencies}
ParseManifest ==
  /\ pc = "start"
  /\ ~JSONparse(packageJsonContent).threw
  /\ allDeps' = ObjSpread(JSONparse(packageJsonContent).dependencies,
                          JSONparse(packageJsonContent).devDependencies)
  /\ pc' = "manifest"
  /\ UNCHANGED <<notDepVars, packageJsonContent, lockFiles, maliciousPackages, lockedVersions,
                 vulnerabilities, affectedPackages, foundVulnerabilities, foundAffected,
                 manifestVulns, outcome>>

\* catch (err) { throw new Error(`Failed to parse package.json: ${err.message}`) }
ThrowParseError ==
  /\ pc = "start"
  /\ JSONparse(packageJsonContent).threw
  /\ outcome' = [status |-> "threw",
                 message |-> <<"Failed to parse package.json: ", JSONparse(packageJsonContent).message>>,
                 vulnerabilities |-> <<>>, affectedPackages |-> <<>>]
  /\ pc' = "done"
  /\ UNCHANGED <<notDepVars, packageJsonContent, lockFiles, maliciousPackages, allDeps, lockedVersions,
                 vulnerabilities, affectedPackages, foundVulnerabilities, foundAffected,
                 manifestVulns>>

\* "Check declared dependencies in package.json"
ManifestPass ==
  /\ pc = "manifest"
  /\ \E st \in {manifestLoop(allDeps, 1, maliciousPackages,
                             PassState(vulnerabilities, affectedPackages,
                                       foundVulnerabilities, foundAffected))} :
         /\ vulnerabilities' = st.v
         /\ affectedPackages' = st.a
         /\ foundVulnerabilities' = st.fv
         /\ foundAffected' = st.fa
         /\ manifestVulns' = st.v
  /\ pc' = "locks"
  /\ UNCHANGED <<notDepVars, packageJsonContent, lockFiles, maliciousPackages, allDeps, lockedVersions,
                 outcome>>

\* if (lockFiles) is false
SkipLocks ==
  /\ pc = "locks"
  /\ lockFiles.isNull
  /\ pc' = "return"
  /\ UNCHANGED <<notDepVars, packageJsonContent, lockFiles, maliciousPackages, allDeps, lockedVersions,
                 vulnerabilities, affectedPackages, foundVulnerabilities, foundAffected,
                 manifestVulns, outcome>>

\* the merge of the lock files into lockedVersions
MergeLocks ==
  /\ pc = "locks"
  /\ ~lockFiles.isNull
  /\ lockedVersions' = mergeLockFiles(lockFiles.files, <<>>)
  /\ pc' = "lockpass"
  /\ UNCHANGED <<notDepVars, packageJsonContent, lockFiles, maliciousPackages, allDeps,
                 vulnerabilities, affectedPackages, foundVulnerabilities, foundAffected,
                 manifestVulns, outcome>>

\* "Check locked versions against malicious packages"
LockPass ==
  /\ pc = "lockpass"
  /\ \E st \in {lockLoop(lockedVersions, 1, allDeps, maliciousPackages,
                         PassState(vulnerabilities, affectedPackages,
                                   foundVulnerabilities, foundAffected))} :
         /\ vulnerabilities' = st.v
         /\ affectedPackages' = st.a
         /\ foundVulnerabilities' = st.fv
         /\ foundAffected' = st.fa
  /\ pc' = "return"
  /\ UNCHANGED <<notDepVars, packageJsonContent, lockFiles, maliciousPackages, allDeps, lockedVersions,
                 manifestVulns, outcome>>

\* return { vulnerabilities, affectedPackages }
Return ==
  /\ pc = "return"
  /\ outcome' = [status |-> "returned", message |-> <<>>,
                 vulnerabilities |-> vulnerabilities, affectedPackages |-> affectedPackages]
  /\ pc' = "done"
  /\ UNCHANGED <<notDepVars, packageJsonContent, lockFiles, maliciousPackages, allDeps, lockedVersions,
                 vulnerabilities, affectedPackages, foundVulnerabilities, foundAffected,
                 manifestVulns>>

Next ==
  \/ ParseManifest
  \/ ThrowParseError
  \/ ManifestPass
  \/ SkipLocks
  \/ MergeLocks
  \/ LockPass
  \/ Return

Spec == Init /\ [][Next]_vars

-----------------------------------------------------------------------------
(* One call of satisfies(version, range) or matchesVersion(range, version) *)

\* largest major, minor or patch number of the enumerated versions
MaxPart == 2

Parts == 0..MaxPart

\* <<version, <<major, minor, patch>>>> of the versions written from numbers:
\* every combination of Parts, and the two-digit versions of the test suite
VersionTable ==
  {<<Ver(a, b, c), <<a, b, c>>>> : a \in Parts, b \in Parts, c \in Parts}
    \cup {<<Ver(5, 11, 3), <<5, 11, 3>>>>,
          <<Ver(5, 2, 0), <<5, 2, 0>>>>,
          <<Ver(5, 12, 0), <<5, 12, 0>>>>}

PlainVersions == {p[1] : p \in VersionTable}

\* '5.11.3-alpha'
Pre(v) == v \o <<"-", "a", "l", "p", "h", "a">>

PrereleaseVersions == {Pre(v) : v \in PlainVersions}

\* '1.0.0-beta'
Beta(v) == v \o <<"-", "b", "e", "t", "a">>

\* versions with another prerelease than that of PrereleaseVersions
BetaVersions == {Beta(Ver(1, 0, 0)), Beta(Ver(1, 1, 0))}

Latest == <<"l", "a", "t", "e", "s", "t">>

\* strings that are no major.minor.patch[-prerelease]
MalformedVersions ==
  {<<"l", "a", "t", "e", "s", "t">>,
   <<>>,
   <<"1", ".", "2">>,
   <<"1", ".", "2", ".", "3", ".", "4">>,
   <<"v", "1", ".", "0", ".", "0">>,
   <<"1", ".", "0", ".", "0", " ">>,
   <<"1", ".", "0", ".", "0", "-">>,
   <<"1", ".", "x">>,
   <<"*">>,
   <<"^", "1", ".", "0", ".", "0">>}

Versions == PlainVersions \cup PrereleaseVersions \cup BetaVersions \cup MalformedVersions

Tilde(v) == <<"~">> \o v

StarRanges == {<<"*">>, <<" ", "*", " ">>}

\* 'N.x' and 'N.x.x'
MajorXRangeTable ==
  {<<Numeral(n) \o <<".", "x">>, n>> : n \in Parts \cup {5}}
    \cup {<<Numeral(n) \o <<".", "x", ".", "x">>, n>> : n \in Parts \cup {5}}

\* 'N.M.x'
MinorXRangeTable ==
  {<<Numeral(n) \o <<".">> \o Numeral(m) \o <<".", "x">>, <<n, m>>>> :
     n \in Parts \cup {5}, m \in Parts \cup {11}}

XRanges == {p[1] : p \in MajorXRangeTable \cup MinorXRangeTable}

CaretRanges == {Caret(v) : v \in PlainVersions \cup {Pre(Ver(1, 0, 0))}}

TildeRanges == {Tilde(v) : v \in PlainVersions \cup {Pre(Ver(1, 0, 0))}}

BareRanges == PlainVersions \cup {Pre(Ver(1, 0, 0)), Pre(Ver(1, 1, 0)), Beta(Ver(1, 0, 0))}

\* the comparison operators of a clause; none for a bare version
Operators == {<<">", "=">>, <<">">>, <<"<", "=">>, <<"<">>, <<>>}

Clauses == {op \o v : op \in Operators, v \in {Ver(1, 1, 0), Ver(2, 0, 0)}}

\* what stands between two clauses
Separators == {<<" ">>, <<"\t">>, <<" ", "\t">>}

\* <<range, clauses>> of the ranges joined from two or three clauses
CompoundTable ==
  {<<c1 \o sep \o c2, <<c1, c2>>>> : c1 \in Clauses, c2 \in Clauses, sep \in Separators}
    \cup {<<c1 \o <<" ">> \o c2 \o <<" ">> \o c3, <<c1, c2, c3>>>> :
            c1 \in {<<">", "=">> \o Ver(1, 1, 0), Ver(2, 0, 0)},
            c2 \in {<<"<">> \o Ver(2, 0, 0), <<"<", "=">> \o Ver(2, 0, 0)},
            c3 \in {<<">">> \o Ver(1, 1, 0), Ver(1, 1, 0)}}

CompoundRanges == {p[1] : p \in CompoundTable}

\* strings that are no range of any supported form
UnrecognisedRanges ==
  {<<"l", "a", "t", "e", "s", "t">>,
   <<>>,
   <<"x">>,
   <<"1">>,
   <<"1", ".", "2">>,
   <<"^">>,
   <<"^", "1", ".", "2">>,
   <<"~", "x">>,
   <<">", "=">>,
   <<">", "=", "1">>,
   <<"=", "1", ".", "0", ".", "0">>,
   <<"v", "1", ".", "0", ".", "0">>,
   <<"1", ".", "0", ".", "0", "j", "u", "n", "k">>,
   <<"1", ".", "0", ".", "0", " ", "-", " ", "2", ".", "0", ".", "0">>,
   <<"1", ".", "0", ".", "0", " ", "|", "|", " ", "2", ".", "0", ".", "0">>,
   <<"1", ".", "x", ".", "x", ".", "x">>,
   <<"X", ".", "x">>,
   <<" ">>,
   <<">", "=", " ", "1", ".", "0", ".", "0">>}

Ranges ==
  StarRanges \cup XRanges \cup CaretRanges \cup TildeRanges \cup BareRanges
    \cup Clauses \cup CompoundRanges \cup UnrecognisedRanges

DepIdle ==
  /\ packageJsonContent = NullManifest
  /\ lockFiles = [isNull |-> TRUE, files |-> <<>>]
  /\ maliciousPackages = <<>>
  /\ pc = "idle"
  /\ allDeps = <<>>
  /\ lockedVersions = <<>>
  /\ vulnerabilities = <<>>
  /\ affectedPackages = <<>>
  /\ foundVulnerabilities = {}
  /\ foundAffected = {}
  /\ manifestVulns = <<>>
  /\ outcome = Pending

SemverInit ==
  /\ argVersion \in Versions
  /\ argRange \in Ranges
  /\ semverResult = NotCalled
  /\ DepIdle
  /\ CsvIdle
  /\ InfIdle
  /\ ScanIdle
  /\ MonoIdle
  /\ LockIdle

\* satisfies(version, range)
CallSatisfies ==
  /\ semverResult.call = "none"
  /\ semverResult' = [call |-> "satisfies", threw |-> FALSE,
                      value |-> satisfies(argVersion, argRange)]
  /\ UNCHANGED <<argVersion, argRange, notSemverVars>>

\* matchesVersion(declaredVersion, maliciousVersion)
CallMatchesVersion ==
  /\ semverResult.call = "none"
  /\ semverResult' = [call |-> "matchesVersion", threw |-> FALSE,
                      value |-> matchesVersion(argRange, argVersion)]
  /\ UNCHANGED <<argVersion, argRange, notSemverVars>>

\* compareVersions(a, b) on two parsed versions, as satisfiesComparator calls it
CallCompareVersions ==
  /\ semverResult.call = "none"
  /\ parseVersion(argVersion).ok
  /\ parseVersion(argRange).ok
  /\ semverResult' = [call |-> "compareVersions", threw |-> FALSE,
                      value |-> compareVersions(parseVersion(argVersion),
                                                parseVersion(argRange))]
  /\ UNCHANGED <<argVersion, argRange, notSemverVars>>

SemverNext ==
  \/ CallSatisfies
  \/ CallMatchesVersion
  \/ CallCompareVersions

SemverSpec == SemverInit /\ [][SemverNext]_vars

-----------------------------------------------------------------------------
(* parseMaliciousPackagesCsv(csvContent)                                   *)

\* most rows below the header
MaxRows == 2

\* a field as it stands in the file, and the value it holds
Field(left, value, right) == [text |-> left \o value \o right, value |-> value]

\* one alternative of a version field: blanks, the '=' marker, the version
Alternative(left, marker, value, right) ==
  [text |-> left \o marker \o value \o right, value |-> value]

RECURSIVE JoinOr(_, _)
JoinOr(alternatives, k) ==
  IF k > Len(alternatives) THEN <<>>
  ELSE (IF k = 1 THEN <<>> ELSE <<"|", "|">>) \o alternatives[k].text
         \o JoinOr(alternatives, k + 1)

\* the line 'name,alternative||alternative...' and what it was written from
CsvRow(name, alternatives) ==
  [text |-> name.text \o <<",">> \o JoinOr(alternatives, 1),
   name |-> name.value,
   versions |-> [k \in 1..Len(alternatives) |-> alternatives[k].value]]

\* a line that is no row
OtherLine(text) == [text |-> text, name |-> <<>>, versions |-> <<>>]

Marker == <<"=", " ">>

RowSamples ==
  {CsvRow(Field(<<>>, NameA, <<>>), <<Alternative(<<>>, Marker, Ver(1, 0, 0), <<>>)>>),
   CsvRow(Field(<<>>, NameB, <<>>),
          <<Alternative(<<>>, Marker, Ver(1, 0, 0), <<" ">>),
            Alternative(<<" ">>, Marker, Ver(1, 0, 1), <<>>)>>),
   CsvRow(Field(<<" ", " ">>, NameA, <<" ", " ">>),
          <<Alternative(<<" ", " ">>, Marker, Ver(2, 0, 0), <<" ", " ">>)>>),
   CsvRow(Field(<<>>, NameB, <<>>),
          <<Alternative(<<>>, <<>>, Ver(1, 0, 0), <<>>),
            Alternative(<<>>, <<"=">>, Ver(1, 0, 1), <<>>)>>),
   CsvRow(Field(<<>>, NameA, <<>>),
          <<Alternative(<<>>, Marker, <<>>, <<>>),
            Alternative(<<" ">>, <<"=", "\t">>, Ver(1, 0, 0), <<>>)>>),
   CsvRow(Field(<<>>, NameB, <<>>),
          <<Alternative(<<>>, <<>>, <<>>, <<" ">>),
            Alternative(<<>>, Marker, Ver(2, 0, 0), <<>>),
            Alternative(<<>>, <<>>, <<>>, <<>>)>>),
   CsvRow(Field(<<>>, <<>>, <<" ">>), <<Alternative(<<>>, Marker, Ver(1, 0, 0), <<>>)>>),
   CsvRow(Field(<<>>, NameA, <<>>), <<Alternative(<<" ">>, <<>>, <<>>, <<>>)>>),
   CsvRow(Field(<<>>, NameA, <<>>),
          <<Alternative(<<>>, Marker, Ver(1, 0, 0) \o <<",">> \o NameB, <<>>)>>),
   OtherLine(NameA),
   OtherLine(<<>>),
   OtherLine(<<" ", "\t">>)}

\* 'Package,Version', and a first line that looks like a row
Headers ==
  {<<"P", "a", "c", "k", "a", "g", "e", ",", "V", "e", "r", "s", "i", "o", "n">>,
   CsvRow(Field(<<>>, NameB, <<>>), <<Alternative(<<>>, Marker, Ver(9, 9, 9), <<>>)>>).text}

LineEnds == {<<"\n">>, <<"\r", "\n">>}

CsvSources ==
  [header : Headers, rows : SeqsUpTo(RowSamples, MaxRows), eol : LineEnds,
   closed : BOOLEAN]

RECURSIVE RenderRows(_, _, _)
RenderRows(rows, k, eol) ==
  IF k > Len(rows) THEN <<>> ELSE eol \o rows[k].text \o RenderRows(rows, k + 1, eol)

\* the text of the file: the header, the rows, a last line end or none
Render(source) ==
  source.header \o RenderRows(source.rows, 1, source.eol)
    \o (IF source.closed THEN source.eol ELSE <<>>)

CsvInit ==
  /\ csvSource \in CsvSources
  /\ csvContent = Render(csvSource)
  /\ csvPc = "start"
  /\ csvLines = <<>>
  /\ csvI = 0
  /\ csvPackages = <<>>
  /\ DepIdle
  /\ SemverIdle
  /\ InfIdle
  /\ ScanIdle
  /\ MonoIdle
  /\ LockIdle

\* const packages = []; const lines = ...split('\n'); let i = 1
SplitLines ==
  /\ csvPc = "start"
  /\ csvLines' = split(replaceCRLF(csvContent, 1), "\n")
  /\ csvI' = 1
  /\ csvPackages' = <<>>
  /\ csvPc' = "loop"
  /\ UNCHANGED <<csvSource, csvContent, notCsvVars>>

\* one turn of the loop that ends in `continue`
SkipLine ==
  /\ csvPc = "loop"
  /\ csvI < Len(csvLines)
  /\ skipsLine(trim(csvLines[csvI + 1]))
  /\ csvI' = csvI + 1
  /\ UNCHANGED <<csvSource, csvContent, csvPc, csvLines, csvPackages, notCsvVars>>

\* one turn of the loop that reaches the versions of the row
ExpandRow ==
  /\ csvPc = "loop"
  /\ csvI < Len(csvLines)
  /\ ~skipsLine(trim(csvLines[csvI + 1]))
  /\ csvPackages' = pushVersions(packageNameOf(trim(csvLines[csvI + 1])),
                                 splitOrFrom(versionSpecOf(trim(csvLines[csvI + 1])), 1, <<>>),
                                 1, csvPackages)
  /\ csvI' = csvI + 1
  /\ UNCHANGED <<csvSource, csvContent, csvPc, csvLines, notCsvVars>>

\* return packages
ReturnPackages ==
  /\ csvPc = "loop"
  /\ csvI >= Len(csvLines)
  /\ csvPc' = "done"
  /\ UNCHANGED <<csvSource, csvContent, csvLines, csvI, csvPackages, notCsvVars>>

CsvNext ==
  \/ SplitLines
  \/ SkipLine
  \/ ExpandRow
  \/ ReturnPackages

CsvSpec == CsvInit /\ [][CsvNext]_vars

-----------------------------------------------------------------------------
(* checkInfections(runners, workflows, repoDescription)                    *)

\* longest list of runners, and of workflows
MaxItems == 2

RunnerSamples ==
  {[name |-> "SHA1HULUD"], [name |-> "sha1hulud"], [name |-> "SHA1HULUD-2"],
   [name |-> "normal-runner"]}

WorkflowSamples ==
  {[name |-> "formatter_123456789.yml"], [name |-> "formatter_123456789.yaml"],
   [name |-> ".github/workflows/formatter_123456789.yml"], [name |-> "ci.yml"]}

Described(text) == [isNull |-> FALSE, text |-> text]

DescriptionSamples ==
  {NoDescription,
   Described(<<>>),
   Described(SecondComing),
   Described(SecondComing \o <<".">>),
   Described(<<"a", " ">> \o SecondComing \o <<" ", "b">>),
   Described(SubSeq(SecondComing, 1, Len(SecondComing) - 1)),
   Described(<<"s">> \o Tail(SecondComing)),
   Described(<<"A", " ", "n", "o", "r", "m", "a", "l", " ", "r", "e", "p", "o", "s", "i", "t", "o", "r", "y">>)}

InfInit ==
  /\ runners \in SeqsUpTo(RunnerSamples, MaxItems)
  /\ workflows \in SeqsUpTo(WorkflowSamples, MaxItems)
  /\ repoDescription \in DescriptionSamples
  /\ infPc = "runners"
  /\ findings = <<>>
  /\ DepIdle
  /\ SemverIdle
  /\ CsvIdle
  /\ ScanIdle
  /\ MonoIdle
  /\ LockIdle

\* "Check for SHA1HULUD runner"
CheckRunners ==
  /\ infPc = "runners"
  /\ findings' = runnerFindings(runners, 1, findings)
  /\ infPc' = "workflows"
  /\ UNCHANGED <<runners, workflows, repoDescription, notInfVars>>

\* "Check for malicious workflow files"
CheckWorkflows ==
  /\ infPc = "workflows"
  /\ findings' = workflowFindings(workflows, 1, findings)
  /\ infPc' = "description"
  /\ UNCHANGED <<runners, workflows, repoDescription, notInfVars>>

\* "Check repository description"
CheckDescription ==
  /\ infPc = "description"
  /\ findings' = descriptionFindings(repoDescription, findings)
  /\ infPc' = "return"
  /\ UNCHANGED <<runners, workflows, repoDescription, notInfVars>>

\* return findings
ReturnFindings ==
  /\ infPc = "return"
  /\ infPc' = "done"
  /\ UNCHANGED <<runners, workflows, repoDescription, findings, notInfVars>>

InfNext ==
  \/ CheckRunners
  \/ CheckWorkflows
  \/ CheckDescription
  \/ ReturnFindings

InfSpec == InfInit /\ [][InfNext]_vars

-----------------------------------------------------------------------------
(* scan-shai-hulud.sh                                                      *)
(* A repository of the fetched list is [full_name, packageJson,            *)
(* indicators, vulnerabilities, affected]: whether package.json can be     *)
(* fetched, and whether checkInfections and checkDependencies would return *)
(* a non-empty list for it.  A run may be interrupted between two steps,   *)
(* and the script may be started again; the two files stay.                *)

CHECKPOINT_INTERVAL == 50

\* most repositories after the first checkpoint
MaxTail == 1

RepoName(k) == <<"r">> \o Numeral(k)

Repo(k, kind) ==
  [full_name |-> RepoName(k), packageJson |-> kind[1], indicators |-> kind[2],
   vulnerabilities |-> kind[3], affected |-> kind[4]]

Clean == <<TRUE, FALSE, FALSE, FALSE>>

\* <<packageJson, indicators, vulnerabilities, affected>>
Kinds ==
  {Clean,
   <<FALSE, FALSE, FALSE, FALSE>>,
   <<FALSE, TRUE, FALSE, FALSE>>,
   <<TRUE, TRUE, TRUE, TRUE>>,
   <<TRUE, FALSE, TRUE, TRUE>>,
   <<TRUE, FALSE, FALSE, TRUE>>}

TailKinds == {Clean, <<FALSE, FALSE, FALSE, FALSE>>, <<TRUE, TRUE, TRUE, TRUE>>}

\* the fetched lists: CHECKPOINT_INTERVAL + MaxTail repositories, clean but for
\* the first, the one at the checkpoint and those after it
FetchedLists ==
  {[k \in 1..(CHECKPOINT_INTERVAL + MaxTail) |->
      Repo(k, IF k = 1 THEN first
              ELSE IF k = CHECKPOINT_INTERVAL THEN fiftieth
              ELSE IF k > CHECKPOINT_INTERVAL THEN tail[k - CHECKPOINT_INTERVAL]
              ELSE Clean)] :
     first \in Kinds, fiftieth \in Kinds, tail \in [1..MaxTail -> TailKinds]}

\* cat > "$OUTPUT_FILE": the empty results document
emptyResults ==
  [exists |-> TRUE, total_repos_scanned |-> 0, repos_with_npm |-> 0,
   confirmed_infected |-> <<>>, likely_vulnerable |-> <<>>,
   potentially_at_risk |-> <<>>, has_affected_packages |-> <<>>]

\* a classification that looks at the dependencies before the indicators
classifyDependenciesFirst(repo) ==
  IF repo.vulnerabilities THEN "likely_vulnerable"
  ELSE IF repo.indicators THEN "confirmed_infected"
  ELSE IF repo.affected THEN "has_affected_packages"
  ELSE "clean"

\* "Classify and report": the list of results.json the repository goes to
classify(repo) ==
  IF repo.indicators THEN "confirmed_infected"
  ELSE IF repo.vulnerabilities THEN "likely_vulnerable"
  ELSE IF repo.affected THEN "has_affected_packages"
  ELSE "clean"

\* the status line the branch of "Classify and report" echoes
status(repo) ==
  IF repo.indicators THEN "CONFIRMED_INFECTED"
  ELSE IF repo.vulnerabilities THEN "LIKELY_VULNERABLE"
  ELSE IF repo.affected THEN "HAS_AFFECTED_PACKAGES (safe versions)"
  ELSE "Clean"

\* jq ".findings.<list> += [$FINDING]" and the update of total_repos_scanned
report(file, repo, scanned) ==
  [file EXCEPT
     !.confirmed_infected =
        IF classify(repo) = "confirmed_infected"
        THEN Append(@, [repo |-> repo.full_name]) ELSE @,
     !.likely_vulnerable =
        IF classify(repo) = "likely_vulnerable"
        THEN Append(@, [repo |-> repo.full_name]) ELSE @,
     !.has_affected_packages =
        IF classify(repo) = "has_affected_packages"
        THEN Append(@, [repo |-> repo.full_name]) ELSE @,
     !.total_repos_scanned = scanned]

\* if [ $((SCANNED % CHECKPOINT_INTERVAL)) -eq 0 ]; then cat > "$CACHE_FILE"
checkpoint(cache, repo, scanned) ==
  IF scanned % CHECKPOINT_INTERVAL = 0
  THEN [exists |-> TRUE, last_processed_repo |-> repo.full_name,
        repos_processed |-> scanned]
  ELSE cache

ScanInit ==
  /\ REPOS \in FetchedLists
  /\ cacheFile = NoFile
  /\ outputFile = NoFile
  /\ previousRun = "none"
  /\ scanPc = "cache"
  /\ repoIndex = 0
  /\ RESUME = FALSE
  /\ START_FROM_REPO = <<>>
  /\ SCANNED = 0
  /\ SKIP_UNTIL_FOUND = FALSE
  /\ echoed = "none"
  /\ DepIdle
  /\ SemverIdle
  /\ CsvIdle
  /\ InfIdle
  /\ MonoIdle
  /\ LockIdle

\* no $CACHE_FILE: RESUME=false, START_FROM_REPO=""
NoCache ==
  /\ scanPc = "cache"
  /\ ~cacheFile.exists
  /\ RESUME' = FALSE
  /\ START_FROM_REPO' = <<>>
  /\ scanPc' = "init"
  /\ UNCHANGED <<echoed, cacheFile, outputFile, REPOS, previousRun, repoIndex, SCANNED, SKIP_UNTIL_FOUND,
                 notScanVars>>

\* "Resume from last checkpoint? [y/N]" answered yes
AnswerYes ==
  /\ scanPc = "cache"
  /\ cacheFile.exists
  /\ RESUME' = TRUE
  /\ START_FROM_REPO' = cacheFile.last_processed_repo
  /\ scanPc' = "init"
  /\ UNCHANGED <<echoed, cacheFile, outputFile, REPOS, previousRun, repoIndex, SCANNED, SKIP_UNTIL_FOUND,
                 notScanVars>>

\* the prompt answered otherwise: rm -f "$CACHE_FILE"
AnswerNo ==
  /\ scanPc = "cache"
  /\ cacheFile.exists
  /\ RESUME' = FALSE
  /\ START_FROM_REPO' = <<>>
  /\ cacheFile' = NoFile
  /\ scanPc' = "init"
  /\ UNCHANGED <<echoed, outputFile, REPOS, previousRun, repoIndex, SCANNED, SKIP_UNTIL_FOUND, notScanVars>>

\* "Fetch Repositories", "Initialize results", SCANNED=0, SKIP_UNTIL_FOUND
InitResults ==
  /\ scanPc = "init"
  /\ outputFile' = emptyResults
  /\ SCANNED' = 0
  /\ SKIP_UNTIL_FOUND' = RESUME
  /\ repoIndex' = 0
  /\ scanPc' = "loop"
  /\ UNCHANGED <<echoed, cacheFile, REPOS, previousRun, RESUME, START_FROM_REPO, notScanVars>>

\* the repository the loop reads next
NextRepo == REPOS[repoIndex + 1]

\* the turn passes the test "Skip until we reach the resume point"
PastResumePoint == ~SKIP_UNTIL_FOUND \/ NextRepo.full_name = START_FROM_REPO

\* a turn that ends in the `continue` of the resume test
SkipRepo ==
  /\ scanPc = "loop"
  /\ repoIndex < Len(REPOS)
  /\ ~PastResumePoint
  /\ repoIndex' = repoIndex + 1
  /\ UNCHANGED <<echoed, cacheFile, outputFile, REPOS, previousRun, scanPc, RESUME, START_FROM_REPO, SCANNED,
                 SKIP_UNTIL_FOUND, notScanVars>>

\* a turn that ends in "No package.json found": SCANNED counts, continue
NoPackageJson ==
  /\ scanPc = "loop"
  /\ repoIndex < Len(REPOS)
  /\ PastResumePoint
  /\ ~NextRepo.packageJson
  /\ SKIP_UNTIL_FOUND' = FALSE
  /\ echoed' = "No package.json found"
  /\ SCANNED' = SCANNED + 1
  /\ repoIndex' = repoIndex + 1
  /\ UNCHANGED <<cacheFile, outputFile, REPOS, previousRun, scanPc, RESUME, START_FROM_REPO,
                 notScanVars>>

\* a turn that runs to the end of the loop body
ScanRepo ==
  /\ scanPc = "loop"
  /\ repoIndex < Len(REPOS)
  /\ PastResumePoint
  /\ NextRepo.packageJson
  /\ SKIP_UNTIL_FOUND' = FALSE
  /\ echoed' = status(NextRepo)
  /\ SCANNED' = SCANNED + 1
  /\ outputFile' = report(outputFile, NextRepo, SCANNED + 1)
  /\ cacheFile' = checkpoint(cacheFile, NextRepo, SCANNED + 1)
  /\ repoIndex' = repoIndex + 1
  /\ UNCHANGED <<REPOS, previousRun, scanPc, RESUME, START_FROM_REPO, notScanVars>>

\* "=== Scan Complete ==="
Complete ==
  /\ scanPc = "loop"
  /\ repoIndex = Len(REPOS)
  /\ scanPc' = "complete"
  /\ UNCHANGED <<echoed, cacheFile, outputFile, REPOS, previousRun, repoIndex, RESUME, START_FROM_REPO,
                 SCANNED, SKIP_UNTIL_FOUND, notScanVars>>

\* the run is interrupted between two turns of the loop
Interrupt ==
  /\ scanPc = "loop"
  /\ scanPc' = "stopped"
  /\ UNCHANGED <<echoed, cacheFile, outputFile, REPOS, previousRun, repoIndex, RESUME, START_FROM_REPO,
                 SCANNED, SKIP_UNTIL_FOUND, notScanVars>>

\* the script is started again: only the two files are left of the last run
Restart ==
  /\ scanPc \in {"stopped", "complete"}
  /\ previousRun' = scanPc
  /\ scanPc' = "cache"
  /\ repoIndex' = 0
  /\ RESUME' = FALSE
  /\ START_FROM_REPO' = <<>>
  /\ SCANNED' = 0
  /\ SKIP_UNTIL_FOUND' = FALSE
  /\ echoed' = "none"
  /\ UNCHANGED <<cacheFile, outputFile, REPOS, notScanVars>>

ScanNext ==
  \/ NoCache
  \/ AnswerYes
  \/ AnswerNo
  \/ InitResults
  \/ SkipRepo
  \/ NoPackageJson
  \/ ScanRepo
  \/ Complete
  \/ Interrupt
  \/ Restart

ScanSpec == ScanInit /\ [][ScanNext]_vars

-----------------------------------------------------------------------------
(* The monorepo version of the script                                      *)
(*                                                                         *)
(* The later version of scan-shai-hulud.sh reads the git tree of every     *)
(* repository and checks each package.json the tree lists, with the lock   *)
(* files of its directory.  Its preflight, cache handling and checkpoints  *)
(* are those of the first version; the runs modelled here are not resumed  *)
(* and start at "Starting scan...".  The script runs under errexit and     *)
(* pipefail.  A path is <<directory, file name>>.  A repository is         *)
(* [full_name, tree, orphans, packages, indicators]: whether its tree can  *)
(* be fetched, whether the tree lists lock files, the package.json files   *)
(* the tree lists, and whether checkInfections would find an indicator.    *)

\* most package.json files a tree lists
MaxPaths == 2

\* most repositories after the first
MaxLater == 1

LOCK_FILE_NAMES == <<"package-lock.json", "yarn.lock", "pnpm-lock.yaml">>

\* how `gh api .../contents/<path> --jq .content | base64 -d` ends for a file
\* the tree lists: with content, with status 0 and nothing written (a file
\* over 1 MB has no content in the answer), or with a status other than 0
Fetches == {"content", "empty", "exit"}

\* PKG_DIR of the k-th package.json of a tree
PkgDir(k) == IF k = 1 THEN <<".">> ELSE <<"packages/p">> \o Numeral(k)

NoLocks == <<"absent", "absent", "absent">>

\* a package.json of a tree: how its fetch ends, for each name of
\* LOCK_FILE_NAMES "absent" or how the fetch of that lock file ends, and
\* whether checkDependencies returns vulnerabilities or affected packages
Package(k, kind) ==
  [dir |-> PkgDir(k), fetch |-> kind[1], locks |-> kind[2],
   vulnerabilities |-> kind[3], affected |-> kind[4]]

PackageKinds ==
  {<<"content", NoLocks, FALSE, FALSE>>,
   <<"empty", NoLocks, FALSE, FALSE>>,
   <<"exit", NoLocks, TRUE, FALSE>>,
   <<"content", <<"content", "absent", "absent">>, TRUE, TRUE>>,
   <<"content", <<"absent", "empty", "absent">>, FALSE, TRUE>>,
   <<"content", <<"absent", "absent", "exit">>, TRUE, FALSE>>,
   <<"content", <<"empty", "content", "absent">>, FALSE, FALSE>>}

\* the package.json lists of the trees: up to MaxPaths files
PackageLists ==
  UNION {{[k \in 1..n |-> Package(k, kinds[k])] : kinds \in [1..n -> PackageKinds]} :
           n \in 1..MaxPaths}

MonoRepo(k, tree, orphans, packages, indicators) ==
  [full_name |-> RepoName(k), tree |-> tree, orphans |-> orphans,
   packages |-> packages, indicators |-> indicators]

\* the repositories the list starts with
FirstRepos ==
  {MonoRepo(1, FALSE, FALSE, <<>>, FALSE),
   MonoRepo(1, TRUE, FALSE, <<>>, FALSE),
   MonoRepo(1, TRUE, TRUE, <<>>, FALSE)}
    \cup {MonoRepo(1, TRUE, FALSE, packages, indicators) :
            packages \in PackageLists, indicators \in BOOLEAN}

\* the repositories that follow
LaterRepo(k, kind) ==
  CASE kind = "clean" ->
         MonoRepo(k, TRUE, FALSE, <<Package(1, <<"content", NoLocks, FALSE, FALSE>>)>>, FALSE)
    [] kind = "vulnerable" ->
         MonoRepo(k, TRUE, FALSE,
                  <<Package(1, <<"content", <<"absent", "empty", "absent">>, TRUE, FALSE>>)>>,
                  FALSE)
    [] kind = "affected" ->
         MonoRepo(k, TRUE, FALSE,
                  <<Package(1, <<"empty", NoLocks, FALSE, FALSE>>),
                    Package(2, <<"content", NoLocks, FALSE, TRUE>>)>>,
                  FALSE)

LaterKinds == {"clean", "vulnerable", "affected"}

MonoLists ==
  {[k \in 1..(1 + MaxLater) |-> IF k = 1 THEN first ELSE LaterRepo(k, later[k - 1])] :
     first \in FirstRepos, later \in [1..MaxLater -> LaterKinds]}

\* PKG_PATH and LOCK_PATH
PkgPath(pkg) == <<pkg.dir, "package.json">>

LockPath(pkg, k) == <<pkg.dir, LOCK_FILE_NAMES[k]>>

\* jq '. += [{path: $path, error: $err}]' "$TMP_WARNINGS"
warn(warnings, path, suffix) ==
  Append(warnings, [path |-> path, error |-> <<"Failed to fetch ", path, suffix>>])

\* set -o errexit, set -o pipefail: the assignment VAR=$(gh api ... | base64 -d)
\* has the status of its pipeline, and a status other than 0 ends the script
exits(fetch) == fetch = "exit"

\* for LOCK_NAME in "${LOCK_FILE_NAMES[@]}": the warnings file, the lock files
\* handed to checkDependencies, and whether the script was ended on the way
RECURSIVE lockFilesLoop(_, _, _, _)
lockFilesLoop(pkg, k, warnings, locks) ==
  IF k > Len(LOCK_FILE_NAMES) THEN [exited |-> FALSE, warnings |-> warnings, locks |-> locks]
  ELSE IF pkg.locks[k] = "absent" THEN lockFilesLoop(pkg, k + 1, warnings, locks)
  ELSE IF exits(pkg.locks[k]) THEN [exited |-> TRUE, warnings |-> warnings, locks |-> locks]
  ELSE IF pkg.locks[k] = "content"
    THEN lockFilesLoop(pkg, k + 1, warnings, Append(locks, LOCK_FILE_NAMES[k]))
  ELSE lockFilesLoop(pkg, k + 1, warn(warnings, LockPath(pkg, k), " (may be >1MB)"), locks)

\* the status line of "Classify and report" of the monorepo version
monoStatus(repo, vulns, affected, warnings) ==
  IF repo.indicators THEN "CONFIRMED_INFECTED"
  ELSE IF vulns # <<>> THEN "LIKELY_VULNERABLE"
  ELSE IF affected # <<>> THEN "HAS_AFFECTED_PACKAGES (safe versions)"
  ELSE IF warnings # <<>> THEN "Clean (but has warnings)"
  ELSE "Clean"

\* jq ".findings.<list> += [$FINDING]", the finding carrying the warnings, and
\* the update of total_repos_scanned
monoReport(file, repo, vulns, affected, warnings, scanned) ==
  [file EXCEPT
     !.confirmed_infected =
        IF repo.indicators
        THEN Append(@, [repo |-> repo.full_name, warnings |-> warnings]) ELSE @,
     !.likely_vulnerable =
        IF ~repo.indicators /\ vulns # <<>>
        THEN Append(@, [repo |-> repo.full_name, warnings |-> warnings]) ELSE @,
     !.has_affected_packages =
        IF ~repo.indicators /\ vulns = <<>> /\ affected # <<>>
        THEN Append(@, [repo |-> repo.full_name, warnings |-> warnings]) ELSE @,
     !.total_repos_scanned = scanned]

\* what a turn displayed for its repository
Shown(repo, line, warnings) == [repo |-> repo.full_name, status |-> line, warnings |-> warnings]

\* the package.json the inner loop reads next
NextPackage == PACKAGE_PATHS[pathIndex]

MonoInit ==
  /\ REPOS \in MonoLists
  /\ cacheFile = NoFile
  /\ outputFile = emptyResults
  /\ previousRun = "none"
  /\ scanPc = "loop"
  /\ repoIndex = 0
  /\ RESUME = FALSE
  /\ START_FROM_REPO = <<>>
  /\ SCANNED = 0
  /\ SKIP_UNTIL_FOUND = FALSE
  /\ echoed = "none"
  /\ MonoIdle
  /\ DepIdle
  /\ SemverIdle
  /\ CsvIdle
  /\ InfIdle
  /\ LockIdle

\* a turn that ends in "Could not fetch repository tree"
NoTree ==
  /\ scanPc = "loop"
  /\ repoIndex < Len(REPOS)
  /\ ~NextRepo.tree
  /\ echoed' = "Could not fetch repository tree"
  /\ console' = Append(console, Shown(NextRepo, "Could not fetch repository tree", <<>>))
  /\ SCANNED' = SCANNED + 1
  /\ repoIndex' = repoIndex + 1
  /\ UNCHANGED <<cacheFile, outputFile, REPOS, previousRun, scanPc, RESUME, START_FROM_REPO,
                 SKIP_UNTIL_FOUND, PACKAGE_PATHS, pathIndex, TMP_VULNS, TMP_AFFECTED,
                 TMP_WARNINGS, notMonoVars>>

\* a turn that ends in `if [ -z "$PACKAGE_PATHS" ]`
NoPackagePaths ==
  /\ scanPc = "loop"
  /\ repoIndex < Len(REPOS)
  /\ NextRepo.tree
  /\ NextRepo.packages = <<>>
  /\ \E line \in {IF NextRepo.orphans THEN "Cannot scan without package.json"
                  ELSE "No Node.js packages found"} :
       /\ echoed' = line
       /\ console' = Append(console, Shown(NextRepo, line, <<>>))
  /\ SCANNED' = SCANNED + 1
  /\ repoIndex' = repoIndex + 1
  /\ UNCHANGED <<cacheFile, outputFile, REPOS, previousRun, scanPc, RESUME, START_FROM_REPO,
                 SKIP_UNTIL_FOUND, PACKAGE_PATHS, pathIndex, TMP_VULNS, TMP_AFFECTED,
                 TMP_WARNINGS, notMonoVars>>

\* the turn reaches "Process each package.json": the temporary files are emptied
StartPackages ==
  /\ scanPc = "loop"
  /\ repoIndex < Len(REPOS)
  /\ NextRepo.tree
  /\ NextRepo.packages # <<>>
  /\ PACKAGE_PATHS' = NextRepo.packages
  /\ pathIndex' = 1
  /\ TMP_VULNS' = <<>>
  /\ TMP_AFFECTED' = <<>>
  /\ TMP_WARNINGS' = <<>>
  /\ scanPc' = "packages"
  /\ UNCHANGED <<cacheFile, outputFile, REPOS, previousRun, repoIndex, RESUME, START_FROM_REPO,
                 SCANNED, SKIP_UNTIL_FOUND, echoed, console, notMonoVars>>

\* PACKAGE_JSON=$(gh api ... | base64 -d) ends with a status other than 0
PackageFetchExits ==
  /\ scanPc = "packages"
  /\ pathIndex <= Len(PACKAGE_PATHS)
  /\ exits(NextPackage.fetch)
  /\ scanPc' = "exited"
  /\ UNCHANGED <<cacheFile, outputFile, REPOS, previousRun, repoIndex, RESUME, START_FROM_REPO,
                 SCANNED, SKIP_UNTIL_FOUND, echoed, monoVars, notMonoVars>>

\* `[ $? -ne 0 ] || [ -z "$PACKAGE_JSON" ]`: the warning, then continue
PackageFetchWarns ==
  /\ scanPc = "packages"
  /\ pathIndex <= Len(PACKAGE_PATHS)
  /\ ~exits(NextPackage.fetch)
  /\ NextPackage.fetch # "content"
  /\ TMP_WARNINGS' = warn(TMP_WARNINGS, PkgPath(NextPackage), "")
  /\ pathIndex' = pathIndex + 1
  /\ UNCHANGED <<scanVars, PACKAGE_PATHS, TMP_VULNS, TMP_AFFECTED, console, notMonoVars>>

\* a fetch of a lock file of the directory ends with a status other than 0
LockFetchExits ==
  /\ scanPc = "packages"
  /\ pathIndex <= Len(PACKAGE_PATHS)
  /\ ~exits(NextPackage.fetch)
  /\ NextPackage.fetch = "content"
  /\ lockFilesLoop(NextPackage, 1, TMP_WARNINGS, <<>>).exited
  /\ TMP_WARNINGS' = lockFilesLoop(NextPackage, 1, TMP_WARNINGS, <<>>).warnings
  /\ scanPc' = "exited"
  /\ UNCHANGED <<cacheFile, outputFile, REPOS, previousRun, repoIndex, RESUME, START_FROM_REPO,
                 SCANNED, SKIP_UNTIL_FOUND, echoed, PACKAGE_PATHS, pathIndex, TMP_VULNS,
                 TMP_AFFECTED, console, notMonoVars>>

\* the lock files are fetched, checkDependencies runs, its lists are appended
\* to the temporary files with the path of the package.json
CheckPackage ==
  /\ scanPc = "packages"
  /\ pathIndex <= Len(PACKAGE_PATHS)
  /\ ~exits(NextPackage.fetch)
  /\ NextPackage.fetch = "content"
  /\ ~lockFilesLoop(NextPackage, 1, TMP_WARNINGS, <<>>).exited
  /\ TMP_WARNINGS' = lockFilesLoop(NextPackage, 1, TMP_WARNINGS, <<>>).warnings
  /\ TMP_VULNS' = IF NextPackage.vulnerabilities
                  THEN Append(TMP_VULNS, [package_json_path |-> PkgPath(NextPackage)])
                  ELSE TMP_VULNS
  /\ TMP_AFFECTED' = IF NextPackage.affected
                     THEN Append(TMP_AFFECTED, [package_json_path |-> PkgPath(NextPackage)])
                     ELSE TMP_AFFECTED
  /\ pathIndex' = pathIndex + 1
  /\ UNCHANGED <<scanVars, PACKAGE_PATHS, console, notMonoVars>>

\* the rest of the turn: the infection check, "Display warnings if any",
\* "Classify and report", the scan metadata and the checkpoint
ClassifyRepo ==
  /\ scanPc = "packages"
  /\ pathIndex > Len(PACKAGE_PATHS)
  /\ echoed' = monoStatus(NextRepo, TMP_VULNS, TMP_AFFECTED, TMP_WARNINGS)
  /\ console' = Append(console,
                       Shown(NextRepo,
                             monoStatus(NextRepo, TMP_VULNS, TMP_AFFECTED, TMP_WARNINGS),
                             TMP_WARNINGS))
  /\ SCANNED' = SCANNED + 1
  /\ outputFile' = monoReport(outputFile, NextRepo, TMP_VULNS, TMP_AFFECTED, TMP_WARNINGS,
                              SCANNED + 1)
  /\ cacheFile' = checkpoint(cacheFile, NextRepo, SCANNED + 1)
  /\ repoIndex' = repoIndex + 1
  /\ scanPc' = "loop"
  /\ UNCHANGED <<REPOS, previousRun, RESUME, START_FROM_REPO, SKIP_UNTIL_FOUND, PACKAGE_PATHS,
                 pathIndex, TMP_VULNS, TMP_AFFECTED, TMP_WARNINGS, notMonoVars>>

MonoNext ==
  \/ NoTree
  \/ NoPackagePaths
  \/ StartPackages
  \/ PackageFetchExits
  \/ PackageFetchWarns
  \/ LockFetchExits
  \/ CheckPackage
  \/ ClassifyRepo
  \/ Complete

MonoSpec == MonoInit /\ [][MonoNext]_vars

-----------------------------------------------------------------------------
(* One call of parsePackageLockJson(content) or parseYarnLock(content)     *)
(*                                                                         *)
(* The argument is written from a list of entries.  An entry of the        *)
(* "packages" object of a package-lock.json is [path, name, version]: its  *)
(* key, the name of the package installed there, and its version, <<>> for *)
(* an entry without one.  A line of a yarn.lock is [kind, text, name,      *)
(* version]: a declaration of the package name, a version line, or another *)
(* line.                                                                   *)

\* most entries of a "packages" object
MaxEntries == 2

\* most lines of a yarn.lock
MaxLines == 3

\* '@s/c', a scoped package
NameC == <<"@", "s", "/", "c">>

PackageEntry(path, name, version) == [path |-> path, name |-> name, version |-> version]

\* the root entry, entries of the top node_modules, entries of the
\* node_modules of package a, an entry without version
PackageEntries ==
  {PackageEntry(<<>>, <<>>, Ver(1, 0, 0)),
   PackageEntry(NodeModules \o NameA, NameA, Ver(5, 11, 3)),
   PackageEntry(NodeModules \o NameB, NameB, Ver(5, 12, 0)),
   PackageEntry(NodeModules \o NameB, NameB, <<>>),
   PackageEntry(NodeModules \o NameC, NameC, Ver(5, 11, 3)),
   PackageEntry(NodeModules \o NameA \o <<"/">> \o NodeModules \o NameB, NameB, Ver(5, 11, 3)),
   PackageEntry(NodeModules \o NameA \o <<"/">> \o NodeModules \o NameC, NameC, Ver(5, 12, 0))}

\* the keys of an object are distinct
PackageObjects ==
  {o \in SeqsUpTo(PackageEntries, MaxEntries) :
     \A i \in 1..Len(o) : \A j \in 1..Len(o) : o[i].path = o[j].path => i = j}

YarnLine(kind, text, name, version) ==
  [kind |-> kind, text |-> text, name |-> name, version |-> version]

Range100 == <<"@", "^", "1", ".", "0", ".", "0">>

Declaration(text, name) == YarnLine("declaration", text, name, <<>>)

\* name@^1.0.0:  "name@^1.0.0":  name@^1.0.0, name@^1.2.0:  and a scoped name
Declarations ==
  {Declaration(NameA \o Range100 \o <<":">>, NameA),
   Declaration(<<"\"">> \o NameB \o Range100 \o <<"\"", ":">>, NameB),
   Declaration(NameA \o Range100 \o <<",", " ">> \o NameA
                 \o <<"@", "^", "1", ".", "2", ".", "0", ":">>, NameA),
   Declaration(NameC \o Range100 \o <<":">>, NameC),
   Declaration(<<"\"">> \o NameC \o Range100 \o <<"\"", ":">>, NameC)}

VersionLine(version) ==
  YarnLine("version", <<" ", " ">> \o VersionWord \o <<" ", "\"">> \o version \o <<"\"">>,
           <<>>, version)

VersionLines == {VersionLine(Ver(5, 11, 3)), VersionLine(Ver(5, 12, 0))}

\* a blank line and a field of an entry that is not its version
OtherLines ==
  {YarnLine("other", <<>>, <<>>, <<>>),
   YarnLine("other", <<" ", " ", "r", "e", "s", "o", "l", "v", "e", "d", " ", "\"", "u", "\"">>,
            <<>>, <<>>)}

YarnLines == SeqsUpTo(Declarations \cup VersionLines \cup OtherLines, MaxLines)

LockSources ==
  {[type |-> "package-lock.json", items |-> o] : o \in PackageObjects}
    \cup {[type |-> "yarn.lock", items |-> l] : l \in YarnLines}

\* the lines joined by "\n"
RECURSIVE JoinLines(_, _)
JoinLines(items, k) ==
  IF k > Len(items) THEN <<>>
  ELSE items[k].text \o (IF k < Len(items) THEN <<"\n">> ELSE <<>>) \o JoinLines(items, k + 1)

\* the content the call is given for the entries
RenderLock(source) ==
  IF source.type = "package-lock.json"
  THEN PackageLockFile([k \in 1..Len(source.items) |->
                          <<source.items[k].path, JsonPkg(source.items[k].version)>>],
                       <<>>).content
  ELSE Text(source.type, JoinLines(source.items, 1)).content

LockInit ==
  /\ lockSource \in LockSources
  /\ argContent = RenderLock(lockSource)
  /\ lockResult = NotCalled
  /\ DepIdle
  /\ SemverIdle
  /\ CsvIdle
  /\ InfIdle
  /\ ScanIdle
  /\ MonoIdle

\* parsePackageLockJson(content)
CallParsePackageLockJson ==
  /\ lockResult.call = "none"
  /\ lockSource.type = "package-lock.json"
  /\ lockResult' = [call |-> "parsePackageLockJson", threw |-> FALSE,
                    value |-> parsePackageLockJson(argContent)]
  /\ UNCHANGED <<lockSource, argContent, notLockVars>>

\* parseYarnLock(content)
CallParseYarnLock ==
  /\ lockResult.call = "none"
  /\ lockSource.type = "yarn.lock"
  /\ lockResult' = [call |-> "parseYarnLock", threw |-> FALSE,
                    value |-> parseYarnLock(argContent)]
  /\ UNCHANGED <<lockSource, argContent, notLockVars>>

LockNext ==
  \/ CallParsePackageLockJson
  \/ CallParseYarnLock

LockSpec == LockInit /\ [][LockNext]_vars

-----------------------------------------------------------------------------
(* Vocabulary of the properties                                            *)

Returned == pc = "done" /\ outcome.status = "returned"

ReturnedWithoutLocks == Returned /\ lockFiles.isNull

Merged == pc \in {"lockpass", "return", "done"} /\ outcome.status # "threw" /\ ~lockFiles.isNull

Entries(list) == {list[i] : i \in 1..Len(list)}

PackagesOf(list) == {list[i].package : i \in 1..Len(list)}

BadSet == Entries(maliciousPackages)

BadNames == PackagesOf(maliciousPackages)

DirectEntry(name, range, version) ==
  [package |-> name, declared_version |-> range, malicious_version |-> version,
   match_type |-> "direct", severity |-> "high"]

\* every (name, range) written in either dependency group of the manifest
DeclaredInGroups ==
  Entries(packageJsonContent.dependencies) \cup Entries(packageJsonContent.devDependencies)

\* one range per name: the devDependencies range where both groups declare the name
DeclaredMerged ==
  Entries(packageJsonContent.devDependencies)
    \cup {d \in Entries(packageJsonContent.dependencies) :
            d[1] \notin ObjKeys(packageJsonContent.devDependencies)}

DeclaredNames ==
  ObjKeys(packageJsonContent.dependencies) \cup ObjKeys(packageJsonContent.devDependencies)

\* the known-bad versions of name that range admits
BadVersionsIn(name, range) ==
  {b.version : b \in {x \in BadSet : x.package = name /\ satisfies(x.version, range)}}

ExpectedDirect(declared) ==
  {DirectEntry(t[1][1], t[1][2], t[2]) :
     t \in {u \in declared \X {b.version : b \in BadSet} : u[2] \in BadVersionsIn(u[1][1], u[1][2])}}

ExactlyOnceEach(list, S) ==
  /\ \A e \in S : Cardinality({i \in 1..Len(list) : list[i] = e}) = 1
  /\ \A i \in 1..Len(list) : list[i] \in S

\* the known-bad versions of name, in the order of the known-bad list
BadIndices(name) == {i \in 1..Len(maliciousPackages) : maliciousPackages[i].package = name}

VersionsInListOrder(name) ==
  [k \in 1..Cardinality(BadIndices(name)) |->
     maliciousPackages[CHOOSE i \in BadIndices(name) :
                         Cardinality({j \in BadIndices(name) : j <= i}) = k].version]

AffectedFromManifest(name, range) ==
  [package |-> name, declared_version |-> range,
   malicious_versions |-> VersionsInListOrder(name), match_type |-> "none"]

AffectedAsClaimed(declared) ==
  \A d \in declared :
    (d[1] \in BadNames /\ BadVersionsIn(d[1], d[2]) = {})
      => /\ Cardinality({i \in 1..Len(outcome.affectedPackages) :
                           outcome.affectedPackages[i].package = d[1]}) = 1
         /\ AffectedFromManifest(d[1], d[2]) \in Entries(outcome.affectedPackages)
         /\ d[1] \notin PackagesOf(outcome.vulnerabilities)

\* the vulnerabilities the lock pass added
LockVulns == SubSeq(vulnerabilities, Len(manifestVulns) + 1, Len(vulnerabilities))

PairOf(e) == <<e.package, e.malicious_version>>

-----------------------------------------------------------------------------
(* Properties                                                              *)

\* C1: in a returned result no package name occurs both in an entry of
\* vulnerabilities and in an entry of affectedPackages.
C1_NoNameInBothLists ==
  Returned => PackagesOf(outcome.vulnerabilities) \cap PackagesOf(outcome.affectedPackages) = {}

C3_LockPassExactMatch ==
  (Merged /\ pc # "lockpass") =>
    /\ \A i \in 1..Len(lockedVersions) :
         (<<lockedVersions[i][1], lockedVersions[i][2]>> \in {PairOf(e) : e \in Entries(LockVulns)})
           <=> /\ [package |-> lockedVersions[i][1], version |-> lockedVersions[i][2]] \in BadSet
               /\ <<lockedVersions[i][1], lockedVersions[i][2]>>
                    \notin {PairOf(e) : e \in Entries(manifestVulns)}
    /\ \A e \in Entries(LockVulns) :
         /\ <<e.package, e.malicious_version>> \in Entries(lockedVersions)
         /\ e.declared_version = e.malicious_version
         /\ e.match_type = IF e.package \in DeclaredNames THEN "direct" ELSE "transitive"

C3_Witness ==
  /\ Returned
  /\ \E e \in Entries(LockVulns) : e.match_type = "transitive"
  /\ \E i \in 1..Len(lockedVersions) :
       /\ lockedVersions[i][1] \in BadNames
       /\ [package |-> lockedVersions[i][1], version |-> lockedVersions[i][2]] \notin BadSet

\* C4: vulnerabilities never holds two entries with the same (package,
\* malicious_version); a pair found by the manifest range and by a lock file
\* keeps the manifest entry (declared range, direct).
C4_NoDuplicatePair ==
  Returned =>
    /\ \A i, j \in 1..Len(outcome.vulnerabilities) :
         PairOf(outcome.vulnerabilities[i]) = PairOf(outcome.vulnerabilities[j]) => i = j
    /\ \A d \in DeclaredMerged : \A v \in BadVersionsIn(d[1], d[2]) :
         \A e \in Entries(outcome.vulnerabilities) :
           PairOf(e) = <<d[1], v>> => e = DirectEntry(d[1], d[2], v)

C4_Witness ==
  /\ Returned
  /\ ~lockFiles.isNull
  /\ \E d \in DeclaredMerged : \E v \in BadVersionsIn(d[1], d[2]) :
       /\ <<d[1], v>> \in Entries(lockedVersions)
       /\ Cardinality({i \in 1..Len(maliciousPackages) :
                         maliciousPackages[i] = [package |-> d[1], version |-> v]}) >= 2

\* C5 as stated: with no lock files, every (name, r) written in either
\* dependency group whose name is known bad while no known-bad version satisfies
\* r has exactly one affectedPackages entry {name, r, all known-bad versions of
\* name in list order}, and vulnerabilities has no entry for name.
C5_EveryDeclaredRangeAffected ==
  ReturnedWithoutLocks => AffectedAsClaimed(DeclaredInGroups)

\* C5 amended: the same for every (name, r) of the merged dependency map.
C5_MergedRangeAffected ==
  ReturnedWithoutLocks => AffectedAsClaimed(DeclaredMerged)

C5_Witness ==
  /\ ReturnedWithoutLocks
  /\ \E e \in Entries(outcome.affectedPackages) :
       /\ Len(e.malicious_versions) >= 2
       /\ e.malicious_versions[1] # e.malicious_versions[2]

\* C6: severity is high iff match_type is direct and medium iff it is
\* transitive, and only an undeclared package name is transitive.
C6_SeverityFollowsMatchType ==
  Returned =>
    \A e \in Entries(outcome.vulnerabilities) :
      /\ e.match_type \in {"direct", "transitive"}
      /\ e.severity \in {"high", "medium"}
      /\ e.severity = "high" <=> e.match_type = "direct"
      /\ e.severity = "medium" <=> e.match_type = "transitive"
      /\ e.match_type = "transitive" => e.package \notin DeclaredNames

C6_Witness ==
  /\ Returned
  /\ \E e \in Entries(LockVulns) : e.match_type = "direct" /\ e.package \in DeclaredNames
  /\ \E e \in Entries(outcome.vulnerabilities) : e.severity = "medium"

\* C7: every vulnerability is an entry of the known-bad list, every affected
\* package occurs in it, and both lists are empty when no name of the manifest
\* or of the lock files occurs in it.
C7_OnlyKnownBadFlagged ==
  Returned =>
    /\ \A e \in Entries(outcome.vulnerabilities) :
         [package |-> e.package, version |-> e.malicious_version] \in BadSet
    /\ \A e \in Entries(outcome.affectedPackages) : e.package \in BadNames
    /\ (DeclaredNames \cup ObjKeys(lockedVersions)) \cap BadNames = {}
         => outcome.vulnerabilities = <<>> /\ outcome.affectedPackages = <<>>

C7_Witness ==
  /\ Returned
  /\ maliciousPackages # <<>>
  /\ DeclaredNames # {}
  /\ lockedVersions # <<>>
  /\ (DeclaredNames \cup ObjKeys(lockedVersions)) \cap BadNames = {}

\* C8: a manifest that is not well-formed JSON ends the call with one error
\* whose message starts with 'Failed to parse package.json' and with no
\* result, whatever the lock files and the known-bad list.
C8_MalformedManifestThrows ==
  (pc = "done" /\ ~packageJsonContent.ok) =>
    /\ outcome.status = "threw"
    /\ outcome.message[1] = "Failed to parse package.json: "
    /\ outcome.vulnerabilities = <<>> /\ outcome.affectedPackages = <<>>
    /\ vulnerabilities = <<>> /\ affectedPackages = <<>>

C8_Witness ==
  /\ pc = "done"
  /\ ~packageJsonContent.ok
  /\ ~lockFiles.isNull /\ lockFiles.files # <<>>
  /\ maliciousPackages # <<>>

\* parsing of the lock file stops on an error somewhere in its content
LockParseFails(f) ==
  IF f.type = "package-lock.json"
  THEN \/ ~f.content.json.ok
       \/ f.content.json.isNull
       \/ \E e \in Entries(f.content.json.packages) : e[1] # <<>> /\ e[2].isNull
       \/ \E e \in Entries(f.content.json.dependencies) : e[2].isNull
  ELSE ~f.content.str

\* the lock files whose parsing does not fail, in input order
RECURSIVE WithoutFailing(_)
WithoutFailing(files) ==
  IF files = <<>> THEN <<>>
  ELSE IF LockParseFails(files[1]) THEN WithoutFailing(Tail(files))
  ELSE <<files[1]>> \o WithoutFailing(Tail(files))

\* C9: a lock file whose parsing fails at any point contributes the empty
\* mapping (nothing extracted before the failure is kept), and never makes
\* checkDependencies fail.
C9_FailedLockParseIsEmpty ==
  /\ (pc = "lockpass") => lockedVersions = mergeLockFiles(WithoutFailing(lockFiles.files), <<>>)
  /\ (pc = "done" /\ outcome.status = "threw") => (~packageJsonContent.ok \/ packageJsonContent.isNull)

\* the position of the last map of parsed that has name
LastWith(parsed, name) ==
  CHOOSE i \in 1..Len(parsed) :
    /\ ObjHas(parsed[i], name)
    /\ \A j \in (i + 1)..Len(parsed) : ~ObjHas(parsed[j], name)

\* the maps the lock files of the input parse to, in input order
ParsedLockFiles == [i \in 1..Len(lockFiles.files) |-> parseLockFile(lockFiles.files[i])]

\* C10: the merged map holds, for every name of any lock file, the version of
\* the last lock file of the input list that has the name; names of earlier
\* files only are kept.
C10_LastLockFileWins ==
  (pc = "lockpass") =>
    \A parsed \in {ParsedLockFiles} :
      /\ ObjKeys(lockedVersions) = UNION {ObjKeys(parsed[i]) : i \in 1..Len(parsed)}
      /\ \A n \in ObjKeys(lockedVersions) :
           ObjGet(lockedVersions, n) = ObjGet(parsed[LastWith(parsed, n)], n)

C10_Witness ==
  /\ pc = "lockpass"
  /\ Len(lockFiles.files) >= 2
  /\ lockFiles.files[1].type # lockFiles.files[2].type
  /\ \E parsed \in {ParsedLockFiles} :
       /\ \E n \in Names :
            /\ ObjHas(parsed[1], n) /\ ObjHas(parsed[2], n)
            /\ ObjGet(parsed[1], n) # ObjGet(parsed[2], n)
            /\ ObjGet(lockedVersions, n) = ObjGet(parsed[2], n)
       /\ \E n \in Names : ObjHas(parsed[1], n) /\ ~ObjHas(parsed[2], n)

-----------------------------------------------------------------------------
(* Properties of the version matcher                                       *)

\* the <<major, minor, patch>> a version of VersionTable was written from
NumbersOf(v) == (CHOOSE p \in VersionTable : p[1] = v)[2]

\* v >= r in (major, minor, patch) order
AtLeast(v, r) ==
  \/ v[1] > r[1]
  \/ v[1] = r[1] /\ v[2] > r[2]
  \/ v[1] = r[1] /\ v[2] = r[2] /\ v[3] >= r[3]

SatisfiesReturned == semverResult.call = "satisfies" /\ ~semverResult.threw

\* the range is ^X.Y.Z, written from numbers
IsCaretOfPlain == argRange # <<>> /\ argRange[1] = "^" /\ slice(argRange, 1) \in PlainVersions

\* what C11 expects of V against ^X.Y.Z, both ways of saying it
CaretExpected(v, r) ==
  /\ semverResult.value <=> (v[1] = r[1] /\ AtLeast(v, r))
  /\ semverResult.value <=> (AtLeast(v, r) /\ ~AtLeast(v, <<r[1] + 1, 0, 0>>))

\* C11: for a caret range ^X.Y.Z with X >= 1 and a parseable version V without
\* prerelease, satisfies(V, '^X.Y.Z') is true iff V.major = X and V >= X.Y.Z in
\* (major, minor, patch) order, that is iff X.Y.Z <= V < (X+1).0.0
C11_CaretRange ==
  (SatisfiesReturned /\ argVersion \in PlainVersions /\ IsCaretOfPlain)
    => \/ NumbersOf(slice(argRange, 1))[1] = 0
       \/ CaretExpected(NumbersOf(argVersion), NumbersOf(slice(argRange, 1)))

\* ^5.2.0 accepted 5.11.3: the minor numbers compare as numbers
C11_Witness ==
  /\ SatisfiesReturned
  /\ argRange = Caret(Ver(5, 2, 0))
  /\ argVersion = Ver(5, 11, 3)
  /\ semverResult.value

\* the version is major.minor.patch or major.minor.patch-alpha, written from numbers
Parseable == argVersion \in PlainVersions \cup PrereleaseVersions

HasPrerelease == argVersion \in PrereleaseVersions

\* the major.minor.patch part of the version
BaseOf(v) == IF v \in PlainVersions THEN v ELSE SubSeq(v, 1, Len(v) - Len(Pre(<<>>)))

\* what C12 expects of V against ^0.Y.Z
ZeroCaretExpected(v, r) ==
  IF r[2] > 0
  THEN semverResult.value
         <=> (~HasPrerelease /\ v[1] = 0 /\ v[2] = r[2] /\ v[3] >= r[3])
  ELSE semverResult.value <=> (~HasPrerelease /\ v = r)

\* C12: for a parseable version V, satisfies(V, '^0.Y.Z') with Y > 0 is true iff
\* V has no prerelease, V.major = 0, V.minor = Y and V.patch >= Z;
\* satisfies(V, '^0.0.Z') is true iff V is exactly 0.0.Z without a prerelease
C12_ZeroMajorCaret ==
  (SatisfiesReturned /\ Parseable /\ IsCaretOfPlain)
    => \/ NumbersOf(slice(argRange, 1))[1] # 0
       \/ ZeroCaretExpected(NumbersOf(BaseOf(argVersion)), NumbersOf(slice(argRange, 1)))

\* ^0.1.1 refused 0.2.1, a version of the next minor
C12_Witness ==
  /\ SatisfiesReturned
  /\ argRange = Caret(Ver(0, 1, 1))
  /\ argVersion = Ver(0, 2, 1)
  /\ ~semverResult.value

\* the range is ~X.Y.Z, written from numbers
IsTildeOfPlain == argRange # <<>> /\ argRange[1] = "~" /\ slice(argRange, 1) \in PlainVersions

\* what C13 expects of V against ~X.Y.Z
TildeExpected(v, r) ==
  semverResult.value
    <=> (~HasPrerelease /\ v[1] = r[1] /\ v[2] = r[2] /\ v[3] >= r[3])

\* C13: for a tilde range ~X.Y.Z and a parseable version V, satisfies(V, '~X.Y.Z')
\* is true iff V has no prerelease, V.major = X, V.minor = Y and V.patch >= Z
C13_TildeRange ==
  (SatisfiesReturned /\ Parseable /\ IsTildeOfPlain)
    => TildeExpected(NumbersOf(BaseOf(argVersion)), NumbersOf(slice(argRange, 1)))

\* ~1.1.0 accepted 1.1.2, a higher patch of the same minor
C13_Witness ==
  /\ SatisfiesReturned
  /\ argRange = Tilde(Ver(1, 1, 0))
  /\ argVersion = Ver(1, 1, 2)
  /\ semverResult.value

\* C14: a version that carries a prerelease suffix satisfies no '*', no x-range
\* (N.x, N.x.x, N.M.x), no caret range and no tilde range
C14_PrereleaseNeverInRange ==
  (/\ SatisfiesReturned
   /\ HasPrerelease
   /\ argRange \in StarRanges \cup XRanges \cup CaretRanges \cup TildeRanges)
    => ~semverResult.value

\* 5.11.3-alpha was refused by ^5.11.3
C14_Witness ==
  /\ SatisfiesReturned
  /\ argVersion = Pre(Ver(5, 11, 3))
  /\ argRange = Caret(Ver(5, 11, 3))
  /\ ~semverResult.value

\* the N of an 'N.x' or 'N.x.x' range, the <<N, M>> of an 'N.M.x' range
MajorOfXRange(r) == (CHOOSE p \in MajorXRangeTable : p[1] = r)[2]
MinorOfXRange(r) == (CHOOSE p \in MinorXRangeTable : p[1] = r)[2]

IsMajorXRange == \E p \in MajorXRangeTable : p[1] = argRange
IsMinorXRange == \E p \in MinorXRangeTable : p[1] = argRange

\* C15: satisfies(V, 'N.x') and satisfies(V, 'N.x.x') are true iff V parses,
\* V.major = N and V has no prerelease; satisfies(V, 'N.M.x') is true iff in
\* addition V.minor = M
C15_XRange ==
  /\ (SatisfiesReturned /\ IsMajorXRange)
       => (semverResult.value
             <=> /\ argVersion \in PlainVersions
                 /\ NumbersOf(argVersion)[1] = MajorOfXRange(argRange))
  /\ (SatisfiesReturned /\ IsMinorXRange)
       => (semverResult.value
             <=> /\ argVersion \in PlainVersions
                 /\ NumbersOf(argVersion)[1] = MinorOfXRange(argRange)[1]
                 /\ NumbersOf(argVersion)[2] = MinorOfXRange(argRange)[2])

\* 5.x.x accepted 5.11.3
C15_Witness ==
  /\ SatisfiesReturned
  /\ argRange = <<"5", ".", "x", ".", "x">>
  /\ argVersion = Ver(5, 11, 3)
  /\ semverResult.value

\* the clauses a range of CompoundTable was joined from
ClausesOf(r) == (CHOOSE p \in CompoundTable : p[1] = r)[2]

\* every clause, taken alone as a range, is satisfied by v
EveryClauseAlone(v, clauses) == \A k \in 1..Len(clauses) : satisfies(v, clauses[k])

HasSpace(r) == \E k \in 1..Len(r) : r[k] = " "

MatcherReturned == semverResult.call \in {"satisfies", "matchesVersion"}

\* C17: for every pair of strings, satisfies and matchesVersion return a boolean
\* without raising an error, and return false whenever the version is not
\* major.minor.patch[-prerelease] or the range is of no recognised form, also
\* when range and version are the same unparseable string
C17_MalformedNeverMatches ==
  MatcherReturned
    => /\ ~semverResult.threw
       /\ semverResult.value \in BOOLEAN
       /\ (argVersion \in MalformedVersions \/ argRange \in UnrecognisedRanges)
            => ~semverResult.value

\* matchesVersion('latest', 'latest') returned false
C17_Witness ==
  /\ semverResult.call = "matchesVersion"
  /\ argVersion = Latest
  /\ argRange = Latest
  /\ ~semverResult.threw
  /\ ~semverResult.value

-----------------------------------------------------------------------------
(* Properties of the known-bad list parser                                 *)

\* the entries one row stands for: none without a name, else one per
\* alternative that holds a version, in the order of the alternatives
RECURSIVE EntriesOfRow(_, _)
EntriesOfRow(row, k) ==
  IF row.name = <<>> \/ k > Len(row.versions) THEN <<>>
  ELSE (IF row.versions[k] = <<>> THEN <<>>
        ELSE <<[package |-> row.name, version |-> row.versions[k]]>>)
         \o EntriesOfRow(row, k + 1)

RECURSIVE EntriesOfRows(_, _)
EntriesOfRows(rows, k) ==
  IF k > Len(rows) THEN <<>>
  ELSE EntriesOfRow(rows[k], 1) \o EntriesOfRows(rows, k + 1)

\* C18: parseMaliciousPackagesCsv returns, for each row after the header that
\* has a comma and non-empty name and version fields, one {package, version}
\* entry per alternative of the version field that holds a version, in row
\* order then alternative order, with the trimmed name and the alternative
\* without its surrounding whitespace and '=' marker; the header row and
\* blank lines contribute no entry
C18_OneEntryPerAlternative ==
  csvPc = "done" => csvPackages = EntriesOfRows(csvSource.rows, 1)

\* two rows, the second with two alternatives, gave three entries in order
C18_Witness ==
  /\ csvPc = "done"
  /\ Len(csvSource.rows) = 2
  /\ csvSource.eol = <<"\r", "\n">>
  /\ Len(csvSource.rows[2].versions) = 2
  /\ Len(csvPackages) = 3
  /\ csvPackages[1].package = NameA
  /\ csvPackages[2] = [package |-> NameB, version |-> Ver(1, 0, 0)]
  /\ csvPackages[3] = [package |-> NameB, version |-> Ver(1, 0, 1)]

-----------------------------------------------------------------------------
(* Properties of the infection check                                       *)

\* how many entries of the list carry exactly that name
CountNamed(list, name) == Cardinality({k \in 1..Len(list) : list[k].name = name})

\* the marker stands somewhere in the description
DescriptionMarked ==
  /\ ~repoDescription.isNull
  /\ \E head \in {<<>>, <<"a", " ">>}, tail \in {<<>>, <<".">>, <<" ", "b">>} :
       repoDescription.text = head \o SecondComing \o tail

\* the findings C19 expects: runners first, then workflows, then the description
ExpectedFindings ==
  [k \in 1..CountNamed(runners, "SHA1HULUD") |->
     [type |-> "runner", name |-> "SHA1HULUD", confidence |-> 100]]
    \o [k \in 1..CountNamed(workflows, "formatter_123456789.yml") |->
          [type |-> "workflow", file |-> "formatter_123456789.yml", confidence |-> 100]]
    \o (IF DescriptionMarked
        THEN <<[type |-> "description", evidence |-> repoDescription.text,
                confidence |-> 100]>>
        ELSE <<>>)

\* C19: checkInfections returns one finding per runner named exactly
\* 'SHA1HULUD', then one per workflow named exactly 'formatter_123456789.yml',
\* then one if the description contains 'Sha1-Hulud: The Second Coming', each
\* with confidence 100, and an empty list when none of these holds
C19_FindingsPerIndicator ==
  infPc = "done"
    => /\ findings = ExpectedFindings
       /\ \A k \in 1..Len(findings) : findings[k].confidence = 100

\* two marked runners, one marked workflow and a marked description gave four
\* findings in that order
C19_Witness ==
  /\ infPc = "done"
  /\ CountNamed(runners, "SHA1HULUD") = 2
  /\ Len(workflows) = 2
  /\ CountNamed(workflows, "formatter_123456789.yml") = 1
  /\ repoDescription = Described(SecondComing \o <<".">>)
  /\ Len(findings) = 4
  /\ findings[3].type = "workflow"
  /\ findings[4].type = "description"

-----------------------------------------------------------------------------
(* Properties of the scanner script                                        *)

\* the repositories results.json names in one of its lists
ReposIn(list) == {list[k].repo : k \in 1..Len(list)}

\* the list of results.json that carries that name
FindingsList(file, name) ==
  CASE name = "confirmed_infected" -> file.confirmed_infected
    [] name = "likely_vulnerable" -> file.likely_vulnerable
    [] name = "has_affected_packages" -> file.has_affected_packages

\* the repository has findings that a turn of the loop writes to results.json
HasFindings(repo) == repo.packageJson /\ classify(repo) # "clean"

\* results.json holds the findings of the repository
Recorded(repo) ==
  /\ outputFile.exists
  /\ repo.full_name \in ReposIn(FindingsList(outputFile, classify(repo)))

\* this run resumed a run that was interrupted, and has finished
ResumedScanFinished == scanPc = "complete" /\ RESUME /\ previousRun = "stopped"

\* C20: when a scan is interrupted after a checkpoint and restarted with the
\* resume prompt answered yes, then once the resumed scan has finished,
\* results.json holds the findings of every repository of the fetched list,
\* those processed before the interruption as well as those processed after
C20_ResumedScanKeepsFindings ==
  ResumedScanFinished
    => \A k \in 1..Len(REPOS) : HasFindings(REPOS[k]) => Recorded(REPOS[k])

\* the repository this run starts to process at
FirstProcessed ==
  IF RESUME THEN CHOOSE k \in 1..Len(REPOS) : REPOS[k].full_name = START_FROM_REPO
  ELSE 1

\* the positions of the repositories this run has processed, the skipped ones
\* left out
ProcessedInRun == FirstProcessed..repoIndex

\* C21: every repository the loop has processed that shows an infection
\* indicator is in confirmed_infected of results.json, whether or not it has a
\* package.json
C21_InfectionCheckedWithoutPackageJson ==
  \A k \in ProcessedInRun :
    REPOS[k].indicators => REPOS[k].full_name \in ReposIn(outputFile.confirmed_infected)

\* the three lists of results.json a turn of the loop appends to
ListNames == {"confirmed_infected", "likely_vulnerable", "has_affected_packages"}

\* how many entries of the list name the repository
TimesListed(file, list, repo) ==
  Cardinality({i \in 1..Len(FindingsList(file, list)) :
                 FindingsList(file, list)[i].repo = repo.full_name})

\* the lists the precedence leaves for the repository: the first of the three
\* whose condition holds, none for a repository with none of the three
ListsByPrecedence(repo) ==
  {list \in ListNames :
     \/ list = "confirmed_infected" /\ repo.indicators
     \/ list = "likely_vulnerable" /\ ~repo.indicators /\ repo.vulnerabilities
     \/ list = "has_affected_packages"
          /\ ~repo.indicators /\ ~repo.vulnerabilities /\ repo.affected}

\* the loop has just classified the repository at repoIndex
JustClassified ==
  scanPc = "loop" /\ repoIndex \in ProcessedInRun /\ REPOS[repoIndex].packageJson

C29_CheckpointAtEveryMultiple ==
  (scanPc = "loop" /\ SCANNED > 0 /\ SCANNED % CHECKPOINT_INTERVAL = 0)
    => /\ cacheFile.exists
       /\ cacheFile.last_processed_repo = REPOS[repoIndex].full_name

\* C30: when a scan that was not resumed has run to the end of the list,
\* total_repos_scanned of results.json is the length of the fetched list
C30_TotalCountsEveryRepository ==
  (scanPc = "complete" /\ ~RESUME) => outputFile.total_repos_scanned = Len(REPOS)

-----------------------------------------------------------------------------
(* Further properties of the version matcher                               *)

\* <<version, <<major, minor, patch>>, prerelease>> of the versions written
\* from numbers and a prerelease, "" for none
FieldsTable ==
  {<<p[1], p[2], "">> : p \in VersionTable}
    \cup {<<Pre(p[1]), p[2], "alpha">> : p \in VersionTable}
    \cup {<<Beta(p[1]), p[2], "beta">> : p \in {q \in VersionTable : Beta(q[1]) \in BetaVersions}}

WellFormed == {p[1] : p \in FieldsTable}

\* the <<major, minor, patch>> and the prerelease a version of FieldsTable was
\* written from
FieldsOf(v) == (CHOOSE p \in FieldsTable : p[1] = v)[2]

PrereleaseOf(v) == (CHOOSE p \in FieldsTable : p[1] = v)[3]

\* C25: for a bare version R as range, satisfies(V, R) is true iff V parses
\* and major, minor, patch and prerelease of V and R are equal
C25_BareRangeIsExactEquality ==
  (SatisfiesReturned /\ argRange \in BareRanges)
    => (semverResult.value
          <=> /\ argVersion \in WellFormed
              /\ FieldsOf(argVersion) = FieldsOf(argRange)
              /\ PrereleaseOf(argVersion) = PrereleaseOf(argRange))

CompareReturned == semverResult.call = "compareVersions" /\ ~semverResult.threw

\* the order the numbers and the prereleases two versions were written from
\* are in: the first different number decides, then a version with a
\* prerelease is below one without, and two prereleases are level
OrderOf(v, r) ==
  IF FieldsOf(v) # FieldsOf(r) THEN (IF AtLeast(FieldsOf(v), FieldsOf(r)) THEN 1 ELSE -1)
  ELSE IF PrereleaseOf(v) # "" /\ PrereleaseOf(r) = "" THEN -1
  ELSE IF PrereleaseOf(v) = "" /\ PrereleaseOf(r) # "" THEN 1
  ELSE 0

\* C26: compareVersions(a, b) is -1, 0 or 1, it is the order of the numbers
\* with the prerelease rule, it is the negation of compareVersions(b, a), and
\* a <= b and b <= c give a <= c for every third version c
C26_CompareVersionsIsTotalPreorder ==
  CompareReturned
    => /\ semverResult.value \in {-1, 0, 1}
       /\ semverResult.value = OrderOf(argVersion, argRange)
       /\ semverResult.value
            = -compareVersions(parseVersion(argRange), parseVersion(argVersion))
       /\ \A c \in WellFormed :
            (/\ semverResult.value <= 0
             /\ compareVersions(parseVersion(argRange), parseVersion(c)) <= 0)
              => compareVersions(parseVersion(argVersion), parseVersion(c)) <= 0

\* 1.0.0-beta against 1.0.0-alpha: two prereleases of the same numbers are level
C26_Witness ==
  /\ CompareReturned
  /\ argVersion = Beta(Ver(1, 0, 0))
  /\ argRange = Pre(Ver(1, 0, 0))
  /\ semverResult.value = 0

-----------------------------------------------------------------------------
(* Further properties of checkDependencies                                 *)

\* the entries the step appends to affectedPackages
AppendedAffected ==
  {affectedPackages'[i] : i \in (Len(affectedPackages) + 1)..Len(affectedPackages')}

\* C24: the lock pass appends an affectedPackages entry for a package only
\* when no vulnerability is recorded for that package name
C24_LockPassSkipsVulnerableNames ==
  [][(pc = "lockpass" /\ pc' = "return")
       => \A e \in AppendedAffected : e.package \notin PackagesOf(vulnerabilities)]_vars

-----------------------------------------------------------------------------
(* Properties of the lock parsers                                          *)

\* the <<name, version>> pairs of the returned object
ResultPairs == {lockResult.value[i] : i \in 1..Len(lockResult.value)}

\* the entries of the "packages" object that have a version, the root left out
VersionedEntries ==
  {lockSource.items[k] :
     k \in {j \in 1..Len(lockSource.items) :
              lockSource.items[j].path # <<>> /\ lockSource.items[j].version # <<>>}}

\* C27: parsePackageLockJson returns, for the entries of "packages" that have
\* a version, the root left out, an object whose keys are the names of the
\* packages the entries describe, at any nesting depth, each with the version
\* of an entry of that name
C27_PackagesKeyedByBareName ==
  lockResult.call = "parsePackageLockJson"
    => /\ {p[1] : p \in ResultPairs} = {e.name : e \in VersionedEntries}
       /\ \A p \in ResultPairs :
            \E e \in VersionedEntries : e.name = p[1] /\ e.version = p[2]

\* versions[name] = version on a set of pairs
Assigned(pairs, name, version) == {p \in pairs : p[1] # name} \cup {<<name, version>>}

\* what the lines say: a declaration makes its package the current one, a
\* version line gives its version to the current package, if any, and leaves
\* no current package
RECURSIVE YarnExpected(_, _, _, _)
YarnExpected(items, k, current, pairs) ==
  IF k > Len(items) THEN pairs
  ELSE IF items[k].kind = "declaration"
    THEN YarnExpected(items, k + 1, items[k].name, pairs)
  ELSE IF items[k].kind = "version" /\ current # <<>>
    THEN YarnExpected(items, k + 1, <<>>, Assigned(pairs, current, items[k].version))
  ELSE YarnExpected(items, k + 1, current, pairs)

\* C28: parseYarnLock gives the version of each version line to the package
\* of the most recent declaration, scoped or not, and to none when no
\* declaration came since the last version line
C28_VersionGoesToLatestDeclaration ==
  lockResult.call = "parseYarnLock"
    => ResultPairs = YarnExpected(lockSource.items, 1, <<>>, {})

-----------------------------------------------------------------------------
(* Properties of the monorepo version of the script                        *)

\* the files of the tree whose fetch the turn tries and that fails: with
\* nothing written or with a status other than 0
FailedPaths(repo) ==
  {PkgPath(repo.packages[i]) :
     i \in {j \in 1..Len(repo.packages) : repo.packages[j].fetch # "content"}}
    \cup UNION {{LockPath(repo.packages[i], k) :
                   k \in {n \in 1..Len(LOCK_FILE_NAMES) :
                            repo.packages[i].locks[n] \in {"empty", "exit"}}} :
                 i \in {j \in 1..Len(repo.packages) : repo.packages[j].fetch = "content"}}

\* the paths the warnings name
WarnedPaths(warnings) == {warnings[i].path : i \in 1..Len(warnings)}

\* C23: a fetch of a listed package.json or lock file that fails, by its
\* exit status or by empty content, never ends the scan, and the turn of the
\* repository displays a warning naming each such path
C23_FetchFailureWarnsAndGoesOn ==
  /\ scanPc # "exited"
  /\ \A k \in 1..repoIndex : FailedPaths(REPOS[k]) \subseteq WarnedPaths(console[k].warnings)

====
